---- MODULE Spec2Model ----
(***************************************************************************)
(* A model of youtube-to-plex: the Plex naming helper of                   *)
(* src/src/download_manager.py (filename sanitizer, title parser, path     *)
(* builder).  Text is modelled as a sequence of one-character strings, so  *)
(* that the regular expressions of the source are matched character by     *)
(* character.  Python's None is the empty tuple <<>> and a present value v *)
(* is the one-element tuple <<v>>.                                         *)
(***************************************************************************)
EXTENDS Integers, Sequences, FiniteSets, TLC

VARIABLES
    video,                \* the YouTubeVideo given to the helper: title, channel_title
    organize_by_season,   \* the organize_by_season argument of generate_plex_path
    filename,             \* the argument of sanitize_filename
    ret,                  \* the last call made and the value it returned
    videos,               \* the list of YouTubeVideo given to a VideoFilter method
    config,               \* VideoFilter.config, a FiltersConfig
    now,                  \* the clock datetime.now() reads, in ticks
    similarity,           \* the scores of the fuzzywuzzy library, by pair of texts
    log,                  \* the info-level lines the filters have logged
    pc,                   \* where the process is in main() and check_and_download
    dry_run,              \* the --dry-run argument
    config_data,          \* the content of the configuration file, None without a file
    feed,                 \* what the Channel Source has to return, None when it raises
    new_videos,           \* new_videos of check_and_download
    next_index,           \* the position of download_videos in its list
    download_results,     \* the dictionary download_videos builds, by video_id
    results,              \* the results dictionary of check_and_download
    events,               \* the calls made so far to the collaborators, in order
    files,                \* the files on disk, each a directory, a name and a size
    exit_status,          \* the messages main() printed and the exit code, if any
    storage,              \* config.storage: generate_metadata, cleanup_partial_downloads
    client                \* the YouTubeClient and the calendar date it reads

naming_vars == <<video, organize_by_season, filename>>

filter_vars == <<videos, config, now, similarity, log>>

run_vars == <<pc, dry_run, config_data, feed, new_videos, next_index, download_results,
              results, events, files, exit_status, storage, client>>

vars == <<video, organize_by_season, filename, ret, videos, config, now, similarity, log,
          pc, dry_run, config_data, feed, new_videos, next_index, download_results,
          results, events, files, exit_status, storage, client>>

-----------------------------------------------------------------------------
(* Characters and the character classes the regular expressions use.       *)

UpperLetters == <<"A", "B", "C", "D", "E", "F", "G", "H", "I", "J", "K", "L", "M",
                  "N", "O", "P", "Q", "R", "S", "T", "U", "V", "W", "X", "Y", "Z">>

LowerLetters == <<"a", "b", "c", "d", "e", "f", "g", "h", "i", "j", "k", "l", "m",
                  "n", "o", "p", "q", "r", "s", "t", "u", "v", "w", "x", "y", "z">>

UpperSet == {UpperLetters[i] : i \in 1..26}

LowerSet == {LowerLetters[i] : i \in 1..26}

\* re.IGNORECASE: both sides of a literal comparison are case-folded.
FoldMap == [c \in UpperSet |-> LowerLetters[CHOOSE i \in 1..26 : UpperLetters[i] = c]]

Fold(c) == IF c \in UpperSet THEN FoldMap[c] ELSE c

DigitChars == <<"0", "1", "2", "3", "4", "5", "6", "7", "8", "9">>

DigitSet == {DigitChars[i] : i \in 1..10}

DigitVal == [c \in DigitSet |-> (CHOOSE i \in 1..10 : DigitChars[i] = c) - 1]

\* \s
SpaceSet == {" ", "\t", "\n", "\r", "\f"}

\* \w
WordSet == UpperSet \cup LowerSet \cup DigitSet \cup {"_"}

None == <<>>

Some(v) == <<v>>

-----------------------------------------------------------------------------
(* Python's int(), str.strip() and the format specification :02d.          *)

RECURSIVE int(_)
\* int(s) for a string of decimal digits: base 10, leading zeros accepted
int(s) == IF s = <<>> THEN 0 ELSE 10 * int(SubSeq(s, 1, Len(s) - 1)) + DigitVal[s[Len(s)]]

RECURSIVE str(_)
\* str(n) for n >= 0
str(n) == IF n < 10 THEN <<DigitChars[n + 1]>> ELSE str(n \div 10) \o <<DigitChars[(n % 10) + 1]>>

\* f"{n}": no padding
Format02d_unpadded(n) == str(n)

\* f"{n:02d}": decimal, zero-padded on the left to at least two characters
Format02d(n) == IF n < 10 THEN <<"0">> \o str(n) ELSE str(n)

RECURSIVE lstrip(_)
lstrip(s) == IF s # <<>> /\ s[1] \in SpaceSet THEN lstrip(Tail(s)) ELSE s

RECURSIVE rstrip(_)
rstrip(s) == IF s # <<>> /\ s[Len(s)] \in SpaceSet THEN rstrip(SubSeq(s, 1, Len(s) - 1)) ELSE s

\* str.strip()
strip(s) == rstrip(lstrip(s))

-----------------------------------------------------------------------------
(* The regular expressions of extract_episode_info.  A pattern is the      *)
(* sequence of its elements; re_search is a backtracking matcher with the  *)
(* semantics of Python's re: leftmost start, (.+?) shortest first, \s+ and *)
(* (\d+) longest first, literals compared case-folded (re.IGNORECASE).     *)

AnyLazy == [k |-> "any_lazy", s |-> <<>>]    \* (.+?)   a capturing group

Spaces == [k |-> "spaces", s |-> <<>>]       \* \s+

Number == [k |-> "number", s |-> <<>>]       \* (\d+)   a capturing group

EndOfText == [k |-> "end", s |-> <<>>]       \* $

Lit(s) == [k |-> "lit", s |-> s]             \* literal text

Word_Season == <<"S", "e", "a", "s", "o", "n">>

Word_Episode == <<"E", "p", "i", "s", "o", "d", "e">>

Word_Series == <<"S", "e", "r", "i", "e", "s">>

\* the trailing-number pattern tried first
patterns_trailing_first ==
    << <<AnyLazy, Spaces, Number, EndOfText>>,
       <<AnyLazy, Spaces, Lit(<<"S">>), Number, Lit(<<"E">>), Number>>,
       <<AnyLazy, Spaces, Lit(Word_Season), Spaces, Number, Spaces, Lit(Word_Episode), Spaces, Number>>,
       <<AnyLazy, Spaces, Number, Lit(<<"x">>), Number>>,
       <<AnyLazy, Spaces, Lit(Word_Series), Spaces, Number, Spaces, Lit(Word_Episode), Spaces, Number>>,
       <<AnyLazy, Spaces, Lit(<<"-">>), Spaces, Lit(Word_Series), Spaces, Number, Spaces,
         Lit(<<"-">>), Spaces, Lit(Word_Episode), Spaces, Number>>,
       <<AnyLazy, Spaces, Lit(<<"-">>), Spaces, Lit(Word_Episode), Spaces, Number>>,
       <<AnyLazy, Spaces, Lit(Word_Episode), Spaces, Number>> >>

\* "Series Episode 5" tried before "Series - Episode 5"
patterns_bare_episode_first ==
    << <<AnyLazy, Spaces, Lit(<<"S">>), Number, Lit(<<"E">>), Number>>,
       <<AnyLazy, Spaces, Lit(Word_Season), Spaces, Number, Spaces, Lit(Word_Episode), Spaces, Number>>,
       <<AnyLazy, Spaces, Number, Lit(<<"x">>), Number>>,
       <<AnyLazy, Spaces, Lit(Word_Series), Spaces, Number, Spaces, Lit(Word_Episode), Spaces, Number>>,
       <<AnyLazy, Spaces, Lit(<<"-">>), Spaces, Lit(Word_Series), Spaces, Number, Spaces,
         Lit(<<"-">>), Spaces, Lit(Word_Episode), Spaces, Number>>,
       <<AnyLazy, Spaces, Lit(Word_Episode), Spaces, Number>>,
       <<AnyLazy, Spaces, Lit(<<"-">>), Spaces, Lit(Word_Episode), Spaces, Number>>,
       <<AnyLazy, Spaces, Number, EndOfText>> >>

patterns ==
    << <<AnyLazy, Spaces, Lit(<<"S">>), Number, Lit(<<"E">>), Number>>,
       <<AnyLazy, Spaces, Lit(Word_Season), Spaces, Number, Spaces, Lit(Word_Episode), Spaces, Number>>,
       <<AnyLazy, Spaces, Number, Lit(<<"x">>), Number>>,
       <<AnyLazy, Spaces, Lit(Word_Series), Spaces, Number, Spaces, Lit(Word_Episode), Spaces, Number>>,
       <<AnyLazy, Spaces, Lit(<<"-">>), Spaces, Lit(Word_Series), Spaces, Number, Spaces,
         Lit(<<"-">>), Spaces, Lit(Word_Episode), Spaces, Number>>,
       <<AnyLazy, Spaces, Lit(<<"-">>), Spaces, Lit(Word_Episode), Spaces, Number>>,
       <<AnyLazy, Spaces, Lit(Word_Episode), Spaces, Number>>,
       <<AnyLazy, Spaces, Number, EndOfText>> >>

\* the comparison without re.IGNORECASE
LitAt_case_sensitive(t, pos, s) ==
    /\ pos + Len(s) - 1 <= Len(t)
    /\ \A j \in 1..Len(s) : t[pos + j - 1] = s[j]

\* the literal s stands at position pos of t, letter case ignored
LitAt(t, pos, s) ==
    /\ pos + Len(s) - 1 <= Len(t)
    /\ \A j \in 1..Len(s) : Fold(t[pos + j - 1]) = Fold(s[j])

RECURSIVE RunLen(_, _, _)
\* the length of the longest run of characters of class cls starting at pos
RunLen(t, pos, cls) ==
    IF pos <= Len(t) /\ t[pos] \in cls THEN 1 + RunLen(t, pos + 1, cls) ELSE 0

RECURSIVE MatchAt(_, _, _, _, _), Greedy(_, _, _, _, _, _, _), Lazy(_, _, _, _, _, _)
\* elements i.. of pattern p matched at position pos of t, the groups captured so
\* far being g (pairs <<first, last>>): None, or Some(groups) of the first way the
\* backtracking search finds
MatchAt(p, i, t, pos, g) ==
    IF i > Len(p) THEN Some(g)
    ELSE CASE p[i].k = "lit" ->
                  IF LitAt(t, pos, p[i].s) THEN MatchAt(p, i + 1, t, pos + Len(p[i].s), g) ELSE None
           [] p[i].k = "spaces" -> Greedy(p, i, t, pos, g, RunLen(t, pos, SpaceSet), FALSE)
           [] p[i].k = "number" -> Greedy(p, i, t, pos, g, RunLen(t, pos, DigitSet), TRUE)
           [] p[i].k = "any_lazy" -> Lazy(p, i, t, pos, g, 1)
           [] p[i].k = "end" ->
                  IF pos = Len(t) + 1 \/ (pos = Len(t) /\ t[pos] = "\n")
                  THEN MatchAt(p, i + 1, t, pos, g) ELSE None

\* a greedy repetition taking n characters, then n - 1, ..., then 1
Greedy(p, i, t, pos, g, n, capture) ==
    IF n < 1 THEN None
    ELSE LET m == MatchAt(p, i + 1, t, pos + n,
                          IF capture THEN Append(g, <<pos, pos + n - 1>>) ELSE g)
         IN  IF m # None THEN m ELSE Greedy(p, i, t, pos, g, n - 1, capture)

\* a lazy repetition of . (any character but a newline) taking n characters,
\* then n + 1, ...
Lazy(p, i, t, pos, g, n) ==
    IF pos + n - 1 > Len(t) \/ t[pos + n - 1] = "\n" THEN None
    ELSE LET m == MatchAt(p, i + 1, t, pos + n, Append(g, <<pos, pos + n - 1>>))
         IN  IF m # None THEN m ELSE Lazy(p, i, t, pos, g, n + 1)

RECURSIVE LineEnd(_, _)
\* the position of the first newline of t at or after pos, Len(t) + 1 if none
LineEnd(t, pos) == IF pos > Len(t) \/ t[pos] = "\n" THEN pos ELSE LineEnd(t, pos + 1)

RECURSIVE SearchFrom(_, _, _)
\* The scan of re.search over the start positions, leftmost first. Every pattern
\* opens with (.+?), which takes any run of characters of one line: when no match
\* starts at a position, none starts later on the same line either (it would
\* extend to the left), so the scan resumes after the line's end.
SearchFrom(p, t, start) ==
    IF start > Len(t) THEN None
    ELSE LET m == MatchAt(p, 1, t, start, <<>>)
         IN  IF m # None THEN m ELSE SearchFrom(p, t, LineEnd(t, start) + 1)

\* re.search(pattern, title, re.IGNORECASE): None, or Some(match.groups())
re_search(p, t) ==
    LET m == SearchFrom(p, t, 1)
    IN  IF m = None THEN None
        ELSE Some([j \in 1..Len(m[1]) |-> SubSeq(t, m[1][j][1], m[1][j][2])])

DefaultSeason_zero == 1 - 1

\* "season = 1  # Default to season 1"
DefaultSeason == 1

\* "return None, None, None" after the loop
NoMatch_partial == <<Some(<<>>), Some(1), None>>

NoMatch == <<None, None, None>>

TripleOf_swapped(groups) ==
    IF Len(groups) = 3
    THEN Some(<<Some(strip(groups[1])), Some(int(groups[2])), Some(int(groups[3]))>>)
    ELSE IF Len(groups) = 2
    THEN Some(<<Some(strip(groups[1])), Some(int(groups[2])), Some(DefaultSeason)>>)
    ELSE None

\* the body of "if match:": the triple returned for match.groups(), if any
TripleOf(groups) ==
    IF Len(groups) = 3
    THEN Some(<<Some(strip(groups[1])), Some(int(groups[2])), Some(int(groups[3]))>>)
    ELSE IF Len(groups) = 2
    THEN Some(<<Some(strip(groups[1])), Some(DefaultSeason), Some(int(groups[2]))>>)
    ELSE None

RECURSIVE ExtractFrom(_, _)
\* the loop "for pattern in patterns" from the i-th pattern on
ExtractFrom(title, i) ==
    IF i > Len(patterns) THEN NoMatch
    ELSE LET match == re_search(patterns[i], title)
         IN  IF match # None /\ TripleOf(match[1]) # None
             THEN TripleOf(match[1])[1]
             ELSE ExtractFrom(title, i + 1)

\* PlexNamingHelper.extract_episode_info: <<series_name, season, episode>>
extract_episode_info(title) == ExtractFrom(title, 1)

-----------------------------------------------------------------------------
(* sanitize_filename and generate_plex_path.                               *)

\* the class [<>:"/\\|?*]
ProblematicSet == {"<", ">", ":", "\"", "/", "\\", "|", "?", "*"}

\* the complemented class [^\w\s\-_\.\(\)]
KeptSet == WordSet \cup SpaceSet \cup {"-", "_", ".", "(", ")"}

\* re.sub(r'[<>:"/\\|?*]', '', filename)
RemoveProblematic(s) == SelectSeq(s, LAMBDA c : c \notin ProblematicSet)

RemoveOther_keep_all(s) == s

\* re.sub(r'[^\w\s\-_\.\(\)]', '', filename)
RemoveOther(s) == SelectSeq(s, LAMBDA c : c \in KeptSet)

\* re.sub(r'\s+', ' ', filename): every maximal run of whitespace becomes one space
CollapseSpaces(s) ==
    LET idx == [i \in 1..Len(s) |-> i]
        first == SelectSeq(idx, LAMBDA i : s[i] \notin SpaceSet \/ i = 1 \/ s[i - 1] \notin SpaceSet)
    IN  [j \in 1..Len(first) |-> IF s[first[j]] \in SpaceSet THEN " " ELSE s[first[j]]]

MaxFilenameLen == 200

Ellipsis == <<".", ".", ".">>

\* if len(filename) > 200: filename = filename[:200] + "..."
LimitLength(s) == IF Len(s) > MaxFilenameLen THEN SubSeq(s, 1, MaxFilenameLen) \o Ellipsis ELSE s

\* whitespace collapsed before the characters are removed
sanitize_filename_collapse_first(s) ==
    LimitLength(strip(RemoveOther(RemoveProblematic(CollapseSpaces(s)))))

\* PlexNamingHelper.sanitize_filename
sanitize_filename(s) == LimitLength(strip(CollapseSpaces(RemoveOther(RemoveProblematic(s)))))

\* pathlib's path / segment for a segment holding no "/": an empty segment and
\* the segment "." add nothing to the path. A path is the sequence of its parts.
PathJoin(path, segment) ==
    IF segment = <<>> \/ segment = <<".">> THEN path ELSE Append(path, segment)

UnknownChannel == <<"U", "n", "k", "n", "o", "w", "n", " ", "C", "h", "a", "n", "n", "e", "l">>

SeasonPrefix == <<"S", "e", "a", "s", "o", "n", " ">>

\* f"Season {season:02d}"
SeasonDir(season) == SeasonPrefix \o Format02d(season)

\* f"{series_dir} - S{season:02d}E{episode:02d} - {sanitized title}"
EpisodeFilename(series_dir, season, episode, title) ==
    series_dir \o <<" ", "-", " ", "S">> \o Format02d(season) \o <<"E">> \o Format02d(episode)
        \o <<" ", "-", " ">> \o sanitize_filename(title)

\* the fallback without its default: video.channel_title
SeriesOrChannel_no_default(info, v) ==
    IF info[1] = None THEN <<Some(v.channel_title), None, None>> ELSE info

\* the fallback "if series_name is None": video.channel_title or "Unknown Channel"
SeriesOrChannel(info, v) ==
    IF info[1] = None
    THEN <<Some(IF v.channel_title = <<>> THEN UnknownChannel ELSE v.channel_title), None, None>>
    ELSE info

\* PlexNamingHelper.generate_plex_path: <<str(full_dir), filename>>
generate_plex_path(v, base_dir, organize) ==
    LET info == SeriesOrChannel(extract_episode_info(v.title), v)
        season == info[2]
        episode == info[3]
        series_dir == sanitize_filename(info[1][1])
    IN  IF organize /\ season # None /\ episode # None
        THEN <<PathJoin(PathJoin(base_dir, series_dir), SeasonDir(season[1])),
               EpisodeFilename(series_dir, season[1], episode[1], v.title)>>
        ELSE <<PathJoin(base_dir, series_dir), sanitize_filename(v.title)>>

-----------------------------------------------------------------------------
(* The inputs.  A title is a head followed by up to two keyword-and-number *)
(* pairs and a tail, every slot ranging over a set that holds the empty    *)
(* text, so that each of the eight patterns, their overlaps and the titles *)
(* no pattern matches all occur.                                           *)

MaxNum == 1

\* the numerals of 0..MaxNum, and the largest one with a leading zero
Numerals == {str(n) : n \in 0..MaxNum} \cup {<<"0">> \o str(MaxNum)}

Heads == {<<>>, <<"A">>}

Leads == {<<>>, <<" ">>, <<" ", "-", " ">>}

FirstKeywords == {<<>>, <<"S">>, <<"s">>, Word_Season \o <<" ">>, Word_Series \o <<" ">>}

FirstNumbers == Numerals \cup {<<>>, <<"P">>}

Links == {<<>>, <<" ">>, <<" ", "-", " ">>}

SecondKeywords == {<<>>, <<"E">>, <<"x">>, Word_Episode \o <<" ">>}

SecondNumbers == Numerals \cup {<<>>}

Tails == {<<>>, <<" ", "7">>, <<" ", "S", "3", "E", "4">>}

Titles ==
    {h \o l \o k1 \o n1 \o j \o k2 \o n2 \o tl :
        h \in Heads, l \in Leads, k1 \in FirstKeywords, n1 \in FirstNumbers,
        j \in Links, k2 \in SecondKeywords, n2 \in SecondNumbers, tl \in Tails}

NoCall == [op |-> "none", arg |-> <<>>, val |-> <<>>]

NoVideo == [title |-> <<>>, channel_title |-> <<>>]

\* the default FiltersConfig()
DefaultFilters ==
    [upload_window_days |-> 7, title_patterns |-> <<>>, min_duration_minutes |-> None,
     max_duration_minutes |-> None, exclude_keywords |-> <<>>]

\* no VideoFilter is in use
FilterUnused ==
    /\ videos = <<>>
    /\ config = DefaultFilters
    /\ now = 0
    /\ similarity = <<>>
    /\ log = <<>>

\* a summary that starts with a download attempted
EmptyResults_one_attempted ==
    [new_videos_found |-> 0, downloads_attempted |-> 1, downloads_successful |-> 0,
     downloads_failed |-> 0, videos_processed |-> <<>>, errors |-> <<>>]

\* the results dictionary check_and_download starts from
EmptyResults ==
    [new_videos_found |-> 0, downloads_attempted |-> 0, downloads_successful |-> 0,
     downloads_failed |-> 0, videos_processed |-> <<>>, errors |-> <<>>]

\* the default StorageConfig()
DefaultStorage == [generate_metadata |-> TRUE, cleanup_partial_downloads |-> TRUE]

\* no YouTubeClient has been constructed
NoClient == [api_client |-> FALSE, quota_used |-> 0, last_quota_reset |-> 0, quota_limit |-> 0, today |-> 0]

\* no process is running
RunUnused ==
    /\ pc = "none"
    /\ dry_run = FALSE
    /\ config_data = None
    /\ feed = None
    /\ new_videos = <<>>
    /\ next_index = 1
    /\ download_results = <<>>
    /\ results = EmptyResults
    /\ events = <<>>
    /\ files = {}
    /\ exit_status = [printed |-> <<>>, code |-> None]
    /\ storage = DefaultStorage
    /\ client = NoClient

-----------------------------------------------------------------------------
(* The title parser applied to a title.                                    *)

InitParse ==
    /\ video \in [title : Titles, channel_title : {<<>>}]
    /\ organize_by_season = TRUE
    /\ filename = <<>>
    /\ ret = NoCall
    /\ FilterUnused
    /\ RunUnused

ExtractEpisodeInfo ==
    /\ ret' = [op |-> "extract_episode_info", arg |-> video.title,
               val |-> extract_episode_info(video.title)]
    /\ UNCHANGED <<naming_vars, filter_vars, run_vars>>

NextParse == ExtractEpisodeInfo

SpecParse == InitParse /\ [][NextParse]_vars

-----------------------------------------------------------------------------
(* The sanitizer applied to a text: up to MaxPieces pieces, among them     *)
(* characters of every class and a run of LongLen letters that takes the   *)
(* text past the length limit.                                             *)

MaxPieces == 3

LongLen == 100

LongRun == [i \in 1..LongLen |-> "a"]

Pieces == {<<"a">>, <<"B", "7">>, <<" ">>, <<"\t", " ">>, <<":">>, <<"?", "/">>, <<"!">>,
           <<"_", "(", ".", ")", "-">>, LongRun}

RECURSIVE TextsOf(_)
\* the texts made of exactly n pieces
TextsOf(n) == IF n = 0 THEN {<<>>} ELSE {t \o q : t \in TextsOf(n - 1), q \in Pieces}

Texts == UNION {TextsOf(n) : n \in 0..MaxPieces}

InitSanitize ==
    /\ video = NoVideo
    /\ organize_by_season = TRUE
    /\ filename \in Texts
    /\ ret = NoCall
    /\ FilterUnused
    /\ RunUnused

SanitizeFilename ==
    /\ ret' = [op |-> "sanitize_filename", arg |-> filename, val |-> sanitize_filename(filename)]
    /\ UNCHANGED <<naming_vars, filter_vars, run_vars>>

NextSanitize == SanitizeFilename

SpecSanitize == InitSanitize /\ [][NextSanitize]_vars

-----------------------------------------------------------------------------
(* The path builder applied to a video: a series name (plain, with         *)
(* characters the sanitizer removes, or made of such characters only),     *)
(* then an episode marker or none; and a channel label.                    *)

base_dir == << <<"t", "m", "p">> >>

PathNumerals == {<<"0">>, <<"7">>, <<"0", "2">>, <<"1", "0", "0">>}

SeriesNames == {<<"A">>, <<"A", ":", " ", "B">>, <<"!", "?">>, <<".">>, <<"A", " ", " ", "b">>}

EpisodeMarkers ==
    {<<>>, <<" ", "B">>}
    \cup {<<" ", "S">> \o n1 \o <<"E">> \o n2 : n1 \in PathNumerals, n2 \in PathNumerals}
    \cup {<<" ">> \o Word_Episode \o <<" ">> \o n : n \in PathNumerals}
    \cup {<<" ">> \o n : n \in PathNumerals}

PathTitles == {h \o m : h \in SeriesNames, m \in EpisodeMarkers}

ChannelTitles == {<<>>, <<"C", "h", " ", "1">>, <<"C", "/", "h">>, <<"?", "!">>}

InitPath ==
    /\ video \in [title : PathTitles, channel_title : ChannelTitles]
    /\ organize_by_season \in BOOLEAN
    /\ filename = <<>>
    /\ ret = NoCall
    /\ FilterUnused
    /\ RunUnused

GeneratePlexPath ==
    /\ ret' = [op |-> "generate_plex_path", arg |-> video.title,
               val |-> generate_plex_path(video, base_dir, organize_by_season)]
    /\ UNCHANGED <<naming_vars, filter_vars, run_vars>>

NextPath == GeneratePlexPath

SpecPath == InitPath /\ [][NextPath]_vars

-----------------------------------------------------------------------------
(* The title parser's claims.  The eight rules are stated here on their    *)
(* own, in the canonical order, as the token each looks for after the      *)
(* series text; a token is read left to right without backtracking.        *)

CanonicalRules ==
    << <<Spaces, Lit(<<"S">>), Number, Lit(<<"E">>), Number>>,
       <<Spaces, Lit(Word_Season), Spaces, Number, Spaces, Lit(Word_Episode), Spaces, Number>>,
       <<Spaces, Number, Lit(<<"x">>), Number>>,
       <<Spaces, Lit(Word_Series), Spaces, Number, Spaces, Lit(Word_Episode), Spaces, Number>>,
       <<Spaces, Lit(<<"-">>), Spaces, Lit(Word_Series), Spaces, Number, Spaces,
         Lit(<<"-">>), Spaces, Lit(Word_Episode), Spaces, Number>>,
       <<Spaces, Lit(<<"-">>), Spaces, Lit(Word_Episode), Spaces, Number>>,
       <<Spaces, Lit(Word_Episode), Spaces, Number>>,
       <<Spaces, Number, EndOfText>> >>

RECURSIVE ReadToken(_, _, _, _, _)
\* items i.. of a token read at position pos of t: None, or Some(the numbers read)
ReadToken(tok, i, t, pos, nums) ==
    IF i > Len(tok) THEN Some(nums)
    ELSE CASE tok[i].k = "spaces" ->
                  LET n == RunLen(t, pos, SpaceSet)
                  IN  IF n >= 1 THEN ReadToken(tok, i + 1, t, pos + n, nums) ELSE None
           [] tok[i].k = "number" ->
                  LET n == RunLen(t, pos, DigitSet)
                  IN  IF n >= 1
                      THEN ReadToken(tok, i + 1, t, pos + n, Append(nums, SubSeq(t, pos, pos + n - 1)))
                      ELSE None
           [] tok[i].k = "lit" ->
                  IF LitAt(t, pos, tok[i].s)
                  THEN ReadToken(tok, i + 1, t, pos + Len(tok[i].s), nums) ELSE None
           [] tok[i].k = "end" ->
                  IF pos = Len(t) + 1 THEN ReadToken(tok, i + 1, t, pos, nums) ELSE None

\* the positions of t at which rule k's token stands after a non-empty text
TokenPositions(k, t) == {j \in 2..Len(t) : ReadToken(CanonicalRules[k], 1, t, j, <<>>) # None}

Least(S) == CHOOSE x \in S : \A y \in S : x <= y

\* the triple rule k gives for a token at position j: two numbers are season and
\* episode, one number is the episode of season 1
TripleAt(k, t, j) ==
    LET nums == ReadToken(CanonicalRules[k], 1, t, j, <<>>)[1]
    IN  <<Some(strip(SubSeq(t, 1, j - 1))),
          Some(IF Len(nums) = 2 THEN int(nums[1]) ELSE 1),
          Some(int(nums[Len(nums)]))>>

\* rule k alone on title t: None, or Some(triple) for its first token
RuleTriple(k, t) ==
    LET S == TokenPositions(k, t)
    IN  IF S = {} THEN None ELSE Some(TripleAt(k, t, Least(S)))

MatchingRules(t) == {k \in 1..8 : TokenPositions(k, t) # {}}

Extracted == ret.op = "extract_episode_info"

\* C1: extract_episode_info returns the triple of the lowest-numbered rule, in the
\* canonical order, that matches the title; no later rule affects the result.
C1_FirstRuleWins ==
    Extracted =>
        LET M == MatchingRules(ret.arg)
        IN  M # {} => ret.val = RuleTriple(Least(M), ret.arg)[1]

\* a title with an S<d>E<d> token that the trailing-number rule matches too, with
\* another triple, and rule 1's triple returned
C1_Witness ==
    /\ Extracted
    /\ {1, 8} \subseteq MatchingRules(ret.arg)
    /\ RuleTriple(8, ret.arg) # RuleTriple(1, ret.arg)
    /\ ret.val = RuleTriple(1, ret.arg)[1]

\* t is X, one space, S, the digits D, E, the digits D2, and nothing more;
\* sp is the position of the space and e the position of the E
IsSxxEyy(t, sp, e) ==
    /\ 1 <= sp /\ sp + 2 < e /\ e < Len(t)
    /\ t[sp] = " "
    /\ Fold(t[sp + 1]) = "s"
    /\ \A i \in (sp + 2)..(e - 1) : t[i] \in DigitSet
    /\ Fold(t[e]) = "e"
    /\ \A i \in (e + 1)..Len(t) : t[i] \in DigitSet

\* an S<d>E<d> token stands in t right after the whitespace at position i
TokenAfter(t, i) ==
    /\ t[i] \in SpaceSet
    /\ i + 4 <= Len(t)
    /\ Fold(t[i + 1]) = "s"
    /\ LET n == RunLen(t, i + 2, DigitSet)
       IN  /\ n >= 1
           /\ i + 2 + n + 1 <= Len(t)
           /\ Fold(t[i + 2 + n]) = "e"
           /\ t[i + 2 + n + 1] \in DigitSet

SxxEyyResult(t, sp, e) ==
    <<Some(strip(SubSeq(t, 1, sp - 1))), Some(int(SubSeq(t, sp + 2, e - 1))),
      Some(int(SubSeq(t, e + 1, Len(t))))>>

\* C2 as stated, for the titles with a non-empty X: every title "<X> S<D>E<D2>"
\* yields (X trimmed, int(D), int(D2)).
C2_AnySeriesText ==
    Extracted =>
        \A sp \in 2..Len(ret.arg), e \in 1..Len(ret.arg) :
            IsSxxEyy(ret.arg, sp, e) => ret.val = SxxEyyResult(ret.arg, sp, e)

\* C2, amended: a title "<X> S<D>E<D2>" whose X is not empty and holds no
\* S<d>E<d> token of its own after whitespace yields (X trimmed, int(D), int(D2)).
C2_FirstTokenSeriesText ==
    Extracted =>
        \A sp \in 1..Len(ret.arg), e \in 1..Len(ret.arg) :
            (/\ IsSxxEyy(ret.arg, sp, e)
             /\ sp > 1
             /\ \A i \in 1..(sp - 1) : ~TokenAfter(ret.arg, i))
            => ret.val = SxxEyyResult(ret.arg, sp, e)

\* such a title with a lower-case s, a number with a leading zero, and its result
C2_Witness ==
    /\ Extracted
    /\ \E sp \in 2..Len(ret.arg), e \in 1..Len(ret.arg) :
          /\ IsSxxEyy(ret.arg, sp, e)
          /\ \A i \in 1..(sp - 1) : ~TokenAfter(ret.arg, i)
          /\ ret.arg[sp + 1] = "s"
          /\ e - sp - 2 >= 2 /\ ret.arg[sp + 2] = "0"
          /\ ret.val = SxxEyyResult(ret.arg, sp, e)
          /\ ret.val[2][1] >= 1

\* C3: when the first matching rule is one of the two-capture rules 6, 7, 8, the
\* season is 1, the episode is the number of the matched token and the series is
\* the trimmed text before that token.
C3_EpisodeOnlyRules ==
    Extracted =>
        LET M == MatchingRules(ret.arg)
        IN  (M # {} /\ Least(M) \in 6..8) =>
                /\ ret.val[2] = Some(1)
                /\ \E j \in TokenPositions(Least(M), ret.arg) :
                      LET nums == ReadToken(CanonicalRules[Least(M)], 1, ret.arg, j, <<>>)[1]
                      IN  /\ Len(nums) = 1
                          /\ ret.val[3] = Some(int(nums[1]))
                          /\ ret.val[1] = Some(strip(SubSeq(ret.arg, 1, j - 1)))

\* a title ending in whitespace and digits that no earlier rule matches
C3_Witness ==
    /\ Extracted
    /\ MatchingRules(ret.arg) = {8}
    /\ ret.val[2] = Some(1)
    /\ ret.val[3][1] >= 1
    /\ ret.arg[1] \in UpperSet
    /\ ret.val[1] = Some(<<ret.arg[1]>>)

SeriesLetterText(L) ==
    <<" ", "-", " ">> \o Word_Series \o <<" ", L, " ", "-", " ">> \o Word_Episode \o <<" ">>

\* t is X, " - Series <L> - Episode ", the digits N, and nothing more; x is the
\* length of X
IsSeriesLetter(t, x, L) ==
    LET mid == SeriesLetterText(L)
    IN  /\ x + Len(mid) < Len(t)
        /\ SubSeq(t, x + 1, x + Len(mid)) = mid
        /\ \A i \in (x + Len(mid) + 1)..Len(t) : t[i] \in DigitSet

\* the series name "<X> - Series <L>", trimmed
SeriesLetterName(t, x) == strip(SubSeq(t, 1, x + 3 + Len(Word_Series) + 2))

SeriesLetterEpisode(t, x, L) == int(SubSeq(t, x + Len(SeriesLetterText(L)) + 1, Len(t)))

\* C5 as stated, for a non-empty X: a title "<X> - Series <L> - Episode <N>" with a letter L is not
\* matched by rule 5 and is first matched by rule 7, giving season 1, episode N
\* and a series name that ends with "- Series <L>".
C5_MatchedByRule7 ==
    Extracted =>
        \A x \in 1..Len(ret.arg), L \in UpperSet :
            IsSeriesLetter(ret.arg, x, L) =>
                /\ 5 \notin MatchingRules(ret.arg)
                /\ Least(MatchingRules(ret.arg)) = 7
                /\ ret.val = <<Some(SeriesLetterName(ret.arg, x)), Some(1),
                               Some(SeriesLetterEpisode(ret.arg, x, L))>>

\* C5, amended: when X holds no episode token of its own, such a title is not
\* matched by rule 5 and is first matched by rule 6 ("- Episode N"), giving season
\* 1, episode N and the series name "<X> - Series <L>".
C5_MatchedByRule6 ==
    Extracted =>
        \A x \in 0..Len(ret.arg), L \in UpperSet :
            (/\ IsSeriesLetter(ret.arg, x, L)
             /\ \A k \in 1..7 : \A j \in TokenPositions(k, ret.arg) : j > x)
            => /\ 5 \notin MatchingRules(ret.arg)
               /\ Least(MatchingRules(ret.arg)) = 6
               /\ ret.val = <<Some(SeriesLetterName(ret.arg, x)), Some(1),
                              Some(SeriesLetterEpisode(ret.arg, x, L))>>

\* the title "A - Series P - Episode <N>" and its result
C5_Witness ==
    /\ Extracted
    /\ IsSeriesLetter(ret.arg, 1, "P")
    /\ ret.arg[1] = "A"
    /\ ret.val[1] = Some(<<"A", " ", "-", " ">> \o Word_Series \o <<" ", "P">>)
    /\ ret.val[2] = Some(1)
    /\ ret.val[3][1] >= 1

\* C6 as stated: a match has season >= 1 and episode >= 1.
C6_Positive ==
    (Extracted /\ ret.val[1] # None) => ret.val[2][1] >= 1 /\ ret.val[3][1] >= 1

AllZeros(digits) == \A i \in 1..Len(digits) : digits[i] = "0"

\* C6, amended: a match has season >= 0 and episode >= 0, and a number is 0 only
\* when the digits captured for it are all zeros (a defaulted season is never 0).
C6_ZeroOnlyFromZeros ==
    (Extracted /\ ret.val[1] # None) =>
        LET k == Least(MatchingRules(ret.arg))
            j == Least(TokenPositions(k, ret.arg))
            nums == ReadToken(CanonicalRules[k], 1, ret.arg, j, <<>>)[1]
        IN  /\ ret.val[2][1] >= 0 /\ ret.val[3][1] >= 0
            /\ ret.val[3][1] = 0 => AllZeros(nums[Len(nums)])
            /\ ret.val[2][1] = 0 => Len(nums) = 2 /\ AllZeros(nums[1])

\* a match whose season is 0, from an S0E<n> token
C6_Witness ==
    /\ Extracted
    /\ ret.val[1] # None
    /\ ret.val[2] = Some(0)
    /\ ret.val[3][1] >= 1
    /\ Least(MatchingRules(ret.arg)) = 1

-----------------------------------------------------------------------------
(* The path builder's and the sanitizer's claims.                          *)

Generated == ret.op = "generate_plex_path"

\* the episode match of the video's title
Info == extract_episode_info(video.title)

\* the part a sanitized series adds to the directory: as a path segment the empty
\* text and "." name the directory itself
SeriesSegment(sd) == IF sd = <<>> \/ sd = <<".">> THEN <<>> ELSE <<sd>>

\* d is the numeral of n, zero-padded to two digits and no further
IsPadded(d, n) ==
    /\ Len(d) >= 2
    /\ \A i \in 1..Len(d) : d[i] \in DigitSet
    /\ int(d) = n
    /\ Len(d) > 2 => d[1] # "0"

\* f is "<series> - S<NN>E<MM> - <title>" and the last directory segment is
\* "Season <NN>", NN and MM being the padded numerals of season and episode
EpisodeLayout(dir, f, series, season, episode, title) ==
    LET p1 == series \o <<" ", "-", " ", "S">>
        a == Len(p1) + 1
        n1 == RunLen(f, a, DigitSet)
        n2 == RunLen(f, a + n1 + 1, DigitSet)
        NN == SubSeq(f, a, a + n1 - 1)
        MM == SubSeq(f, a + n1 + 1, a + n1 + n2)
    IN  /\ Len(f) >= a + n1 + n2 /\ n1 >= 1 /\ n2 >= 1
        /\ SubSeq(f, 1, Len(p1)) = p1
        /\ f[a + n1] = "E"
        /\ SubSeq(f, a + n1 + n2 + 1, Len(f)) = <<" ", "-", " ">> \o title
        /\ IsPadded(NN, season) /\ IsPadded(MM, episode)
        /\ dir[Len(dir)] = <<"S", "e", "a", "s", "o", "n", " ">> \o NN

\* C7 as stated, for a series whose sanitized name is not empty: with
\* organize_by_season and an episode match, the directory is
\* base/<sanitized series>/Season NN and the filename stem is
\* "<series> - SNNEMM - <sanitized title>", <series> being the parsed series.
C7_ParsedSeriesInFilename ==
    (Generated /\ organize_by_season /\ Info[1] # None
       /\ sanitize_filename(Info[1][1]) # <<>>) =>
        LET sd == sanitize_filename(Info[1][1])
        IN  /\ Len(ret.val[1]) = Len(base_dir) + Len(SeriesSegment(sd)) + 1
            /\ SubSeq(ret.val[1], 1, Len(ret.val[1]) - 1) = base_dir \o SeriesSegment(sd)
            /\ EpisodeLayout(ret.val[1], ret.val[2], Info[1][1], Info[2][1], Info[3][1],
                             sanitize_filename(video.title))

\* C7, amended: the filename stem is "<sanitized series> - SNNEMM - <sanitized
\* title>": the series in it is the sanitized directory segment.
C7_SanitizedSeriesInFilename ==
    (Generated /\ organize_by_season /\ Info[1] # None) =>
        LET sd == sanitize_filename(Info[1][1])
        IN  /\ Len(ret.val[1]) = Len(base_dir) + Len(SeriesSegment(sd)) + 1
            /\ SubSeq(ret.val[1], 1, Len(ret.val[1]) - 1) = base_dir \o SeriesSegment(sd)
            /\ EpisodeLayout(ret.val[1], ret.val[2], sd, Info[2][1], Info[3][1],
                             sanitize_filename(video.title))

\* a three-digit season, a one-digit episode and a series the sanitizer changes
C7_Witness ==
    /\ Generated /\ organize_by_season /\ Info[1] # None
    /\ Info[2][1] >= 100 /\ Info[3][1] < 10
    /\ sanitize_filename(Info[1][1]) # Info[1][1]
    /\ Len(ret.val[1]) = Len(base_dir) + 2

\* C8: without organize_by_season, or without an episode match, the directory is
\* base/<sanitized series> and the filename stem the sanitized title; the series is
\* the parsed one, else the channel label, else "Unknown Channel".
C8_FlatLayout ==
    (Generated /\ (~organize_by_season \/ Info[1] = None)) =>
        LET series == IF Info[1] # None THEN Info[1][1]
                      ELSE IF video.channel_title # <<>> THEN video.channel_title
                      ELSE <<"U", "n", "k", "n", "o", "w", "n", " ", "C", "h", "a", "n", "n", "e", "l">>
        IN  /\ ret.val[1] = base_dir \o SeriesSegment(sanitize_filename(series))
            /\ ret.val[2] = sanitize_filename(video.title)

\* an episode match laid out flat because organize_by_season is false
C8_Witness ==
    /\ Generated /\ ~organize_by_season /\ Info[1] # None
    /\ Len(ret.val[1]) = Len(base_dir) + 1
    /\ video.channel_title # <<>>
    /\ ret.val[1][Len(base_dir) + 1] # sanitize_filename(video.channel_title)

IsSeasonSegment(seg) ==
    /\ Len(seg) >= Len(SeasonPrefix) + 2
    /\ SubSeq(seg, 1, Len(SeasonPrefix)) = SeasonPrefix
    /\ \A i \in (Len(SeasonPrefix) + 1)..Len(seg) : seg[i] \in DigitSet

\* C9: the directory is the base directory, then exactly one non-empty sanitized
\* series segment, then at most one "Season NN" segment.
C9_SeriesSegmentPresent ==
    Generated =>
        LET dir == ret.val[1]
            n == Len(base_dir)
            series == IF Info[1] # None THEN Info[1][1]
                      ELSE IF video.channel_title # <<>> THEN video.channel_title
                      ELSE UnknownChannel
        IN  /\ Len(dir) \in {n + 1, n + 2}
            /\ SubSeq(dir, 1, n) = base_dir
            /\ dir[n + 1] # <<>>
            /\ dir[n + 1] = sanitize_filename(series)
            /\ Len(dir) = n + 2 => IsSeasonSegment(dir[n + 2])

Sanitized == ret.op = "sanitize_filename"

\* C10: the output of sanitize_filename holds none of < > : " / \ | ? * and only
\* alphanumerics, whitespace, hyphen, underscore, parentheses and period; it has no
\* leading, trailing or doubled whitespace; and it is at most 200 characters long,
\* or the first 200 characters of the cleaned text followed by "...".
C10_SanitizedOutput ==
    Sanitized =>
        LET out == ret.val
            cleaned == strip(CollapseSpaces(RemoveOther(RemoveProblematic(ret.arg))))
        IN  /\ \A i \in 1..Len(out) :
                  /\ out[i] \notin {"<", ">", ":", "\"", "/", "\\", "|", "?", "*"}
                  /\ out[i] \in UpperSet \cup LowerSet \cup DigitSet \cup SpaceSet
                                \cup {"-", "_", "(", ")", "."}
            /\ out # <<>> => out[1] \notin SpaceSet /\ out[Len(out)] \notin SpaceSet
            /\ \A i \in 1..(Len(out) - 1) : ~(out[i] \in SpaceSet /\ out[i + 1] \in SpaceSet)
            /\ \/ Len(out) <= 200
               \/ out = SubSeq(cleaned, 1, 200) \o <<".", ".", ".">>
            /\ Len(out) <= 203

\* a text cut to 200 characters and "..."
C10_Witness ==
    /\ Sanitized
    /\ Len(ret.val) = 203
    /\ Len(ret.arg) > 200
    /\ SubSeq(ret.val, 201, 203) = <<".", ".", ".">>

-----------------------------------------------------------------------------
(* The sanitizer applied to a text and then to its own output.  The texts  *)
(* are those of the sanitizer's specification and texts whose cleaned form *)
(* is cut at, just before and just after a space.                          *)

EdgeTexts ==
    {LongRun \o SubSeq(LongRun, 1, LongLen - k) \o <<" ">> \o LongRun : k \in 0..2}
    \cup {LongRun \o LongRun \o q : q \in {<<"b">>, <<" ", "b">>, <<".", ".", ".">>, <<"!", "b", ":">>}}
    \cup {<<"a", " ", "!", " ", "b">>, <<"a", " ", ":", "\t", "b">>, <<"(", "a", ")", " ", "-", " ", "b", ".", "c">>}

InitResanitize ==
    /\ video = NoVideo
    /\ organize_by_season = TRUE
    /\ filename \in Texts \cup EdgeTexts
    /\ ret = NoCall
    /\ FilterUnused
    /\ RunUnused

\* sanitize_filename called on the value the last call returned
SanitizeAgain ==
    /\ ret.op = "sanitize_filename"
    /\ ret' = [op |-> "sanitize_filename", arg |-> ret.val, val |-> sanitize_filename(ret.val)]
    /\ UNCHANGED <<naming_vars, filter_vars, run_vars>>

NextResanitize == SanitizeFilename \/ SanitizeAgain

SpecResanitize == InitResanitize /\ [][NextResanitize]_vars

\* a text the sanitizer has nothing to do on: allowed characters only, spaces
\* the only whitespace, none of them leading, trailing or doubled, and at most
\* 200 characters
Clean(x) ==
    /\ \A i \in 1..Len(x) :
           x[i] \in UpperSet \cup LowerSet \cup DigitSet \cup {" ", "-", "_", "(", ")", "."}
    /\ x # <<>> => x[1] # " " /\ x[Len(x)] # " "
    /\ \A i \in 1..(Len(x) - 1) : ~(x[i] = " " /\ x[i + 1] = " ")
    /\ Len(x) <= 200

\* C11: sanitize_filename returns a clean text unchanged, and applied to a value
\* it returned it returns that value again, also when the first application cut
\* the text and appended "...".
C11_Idempotent ==
    /\ [](Sanitized /\ Clean(ret.arg) => ret.val = ret.arg)
    /\ [][(Sanitized /\ Sanitized' /\ ret'.arg = ret.val) => ret'.val = ret.val]_vars

\* the second application on a text the first one cut: the argument is not the
\* original text, ends in "..." after 200 characters, and comes back unchanged
C11_Witness ==
    /\ Sanitized
    /\ ret.arg # filename
    /\ ret.arg = LimitLength(strip(CollapseSpaces(RemoveOther(RemoveProblematic(filename)))))
    /\ Len(ret.arg) = 203
    /\ ret.arg[200] = " "
    /\ ret.val = ret.arg

-----------------------------------------------------------------------------
(* YouTubeVideo's derived properties and the VideoFilter.  Time is counted *)
(* in ticks.  published_at is kept by the form of its text and the instant *)
(* written in it: "iso" 2024-01-15T10:30:00Z, "rss" Mon, 15 Jan 2024       *)
(* 10:30:00 GMT, "rss_lower" the same in lower case, "date" 2024-01-15.    *)
(* A filter returns its output list and the info lines it logs.            *)

TicksPerDay == 2

\* 'T' in self.published_at
ContainsT(p) == p.form \in {"iso", "rss"}

\* datetime.fromisoformat(...) does not raise ValueError
IsoParses(p) == p.form = "iso"

\* datetime.strptime(..., '%a, %d %b %Y %H:%M:%S %Z') does not raise ValueError
RssParses(p) == p.form \in {"rss", "rss_lower"}

\* YouTubeVideo.published_datetime, clock being what datetime.now() reads in
\* the fallback
published_datetime(v, clock) ==
    LET p == v.published_at
    IN  IF ContainsT(p)
        THEN IF IsoParses(p) THEN p.at ELSE clock
        ELSE IF RssParses(p) THEN p.at ELSE clock

\* one optional group (?:(\d+)<letter>)? of the duration pattern at position
\* pos: <<the captured digits or None, the position after the group>>
DurationGroup(d, pos, letter) ==
    LET n == RunLen(d, pos, DigitSet)
    IN  IF n >= 1 /\ pos + n <= Len(d) /\ d[pos + n] = letter
        THEN <<Some(SubSeq(d, pos, pos + n - 1)), pos + n + 1>>
        ELSE <<None, pos>>

\* int(match.group(k) or 0)
GroupOrZero(g) == IF g = None THEN 0 ELSE int(g[1])

\* YouTubeVideo.duration_minutes: None, or Some(minutes)
duration_minutes(v) ==
    LET d == v.duration
    IN  IF d = <<>> THEN None
        ELSE IF ~(Len(d) >= 2 /\ d[1] = "P" /\ d[2] = "T") THEN None
        ELSE LET h == DurationGroup(d, 3, "H")
                 m == DurationGroup(d, h[2], "M")
                 sec == DurationGroup(d, m[2], "S")
             IN  Some(GroupOrZero(h[1]) * 60 + GroupOrZero(m[1])
                      + (IF GroupOrZero(sec[1]) > 0 THEN 1 ELSE 0))

\* str.lower()
lower(s) == [i \in 1..Len(s) |-> Fold(s[i])]

\* sub in s, for texts
occurs_in(sub, s) == \E i \in 0..(Len(s) - Len(sub)) : SubSeq(s, i + 1, i + Len(sub)) = sub

\* fuzz.partial_ratio(s1, s2): the library's score for the pair
partial_ratio(s1, s2) == similarity[<<s1, s2>>]

\* "<name> filter: <passed>/<of> videos passed"
FilterLine(name, out, in) == [msg |-> name, passed |-> Len(out), of |-> Len(in)]

\* cutoff_date = datetime.now() - timedelta(days=self.config.upload_window_days)
cutoff_date(cfg, clock) == clock - cfg.upload_window_days * TicksPerDay

\* VideoFilter.filter_by_upload_date; clock is the reading of datetime.now() for
\* the cutoff and later the reading of the fallback of published_datetime
filter_by_upload_date(cfg, vs, clock, later) ==
    IF cfg.upload_window_days <= 0 THEN [out |-> vs, lines |-> <<>>]
    ELSE LET filtered_videos ==
                 SelectSeq(vs, LAMBDA v : published_datetime(v, later) >= cutoff_date(cfg, clock))
         IN  [out |-> filtered_videos,
              lines |-> <<FilterLine("Upload date filter", filtered_videos, vs)>>]

\* the comparison "similarity > threshold"
ScoreReaches_strict(score, threshold) == score > threshold

\* similarity >= threshold
ScoreReaches(score, threshold) == score >= threshold

RECURSIVE MatchedFrom(_, _, _)
\* the loop "for pattern_config in self.config.title_patterns" from the i-th
\* pattern on: the value of matched when the loop ends
MatchedFrom(title_patterns, i, title_lower) ==
    IF i > Len(title_patterns) THEN FALSE
    ELSE LET pattern == lower(title_patterns[i].pattern)
             threshold == title_patterns[i].fuzzy_threshold
         IN  IF occurs_in(pattern, title_lower) THEN TRUE
             ELSE IF ScoreReaches(partial_ratio(pattern, title_lower), threshold) THEN TRUE
             ELSE MatchedFrom(title_patterns, i + 1, title_lower)

\* VideoFilter.filter_by_title_patterns
filter_by_title_patterns(cfg, vs) ==
    IF cfg.title_patterns = <<>> THEN [out |-> vs, lines |-> <<>>]
    ELSE LET filtered_videos ==
                 SelectSeq(vs, LAMBDA v : MatchedFrom(cfg.title_patterns, 1, lower(v.title)))
         IN  [out |-> filtered_videos,
              lines |-> <<FilterLine("Title pattern filter", filtered_videos, vs)>>]

\* the loop body with the unknown duration compared like a duration of 0
InDurationRange_unknown_as_zero(cfg, v) ==
    LET duration_mins == IF duration_minutes(v) = None THEN 0 ELSE duration_minutes(v)[1]
    IN  /\ ~(cfg.min_duration_minutes # None /\ duration_mins < cfg.min_duration_minutes[1])
        /\ ~(cfg.max_duration_minutes # None /\ duration_mins > cfg.max_duration_minutes[1])

\* the body of the loop of filter_by_duration: the video is appended
InDurationRange(cfg, v) ==
    LET duration_mins == duration_minutes(v)
    IN  IF duration_mins = None THEN TRUE
        ELSE /\ ~(cfg.min_duration_minutes # None /\ duration_mins[1] < cfg.min_duration_minutes[1])
             /\ ~(cfg.max_duration_minutes # None /\ duration_mins[1] > cfg.max_duration_minutes[1])

\* VideoFilter.filter_by_duration
filter_by_duration(cfg, vs) ==
    IF cfg.min_duration_minutes = None /\ cfg.max_duration_minutes = None
    THEN [out |-> vs, lines |-> <<>>]
    ELSE LET filtered_videos == SelectSeq(vs, LAMBDA v : InDurationRange(cfg, v))
         IN  [out |-> filtered_videos,
              lines |-> <<FilterLine("Duration filter", filtered_videos, vs)>>]

\* the keyword looked for in the title only
Excluded_title_only(exclude_keywords, v) ==
    \E i \in 1..Len(exclude_keywords) : occurs_in(lower(exclude_keywords[i]), lower(v.title))

\* the loop "for keyword in self.config.exclude_keywords": the value of excluded
Excluded(exclude_keywords, v) ==
    \E i \in 1..Len(exclude_keywords) :
        \/ occurs_in(lower(exclude_keywords[i]), lower(v.title))
        \/ occurs_in(lower(exclude_keywords[i]), lower(v.description))

\* VideoFilter.filter_by_exclude_keywords
filter_by_exclude_keywords(cfg, vs) ==
    IF cfg.exclude_keywords = <<>> THEN [out |-> vs, lines |-> <<>>]
    ELSE LET filtered_videos == SelectSeq(vs, LAMBDA v : ~Excluded(cfg.exclude_keywords, v))
         IN  [out |-> filtered_videos,
              lines |-> <<FilterLine("Exclude keywords filter", filtered_videos, vs)>>]

\* the stages run on the input list, each one, instead of on the previous output
apply_all_filters_on_input(cfg, vs, clock, later) ==
    LET s1 == filter_by_upload_date(cfg, vs, clock, later)
        s2 == filter_by_title_patterns(cfg, vs)
        s3 == filter_by_duration(cfg, vs)
        s4 == filter_by_exclude_keywords(cfg, vs)
    IN  [out |-> s4.out,
         lines |-> <<FilterLine("Starting to filter", vs, vs)>>
                   \o s1.lines \o s2.lines \o s3.lines \o s4.lines
                   \o <<FilterLine("Filtering complete", s4.out, vs)>>]

\* VideoFilter.apply_all_filters
apply_all_filters(cfg, vs, clock, later) ==
    LET s1 == filter_by_upload_date(cfg, vs, clock, later)
        s2 == filter_by_title_patterns(cfg, s1.out)
        s3 == filter_by_duration(cfg, s2.out)
        s4 == filter_by_exclude_keywords(cfg, s3.out)
    IN  [out |-> s4.out,
         lines |-> <<FilterLine("Starting to filter", vs, vs)>>
                   \o s1.lines \o s2.lines \o s3.lines \o s4.lines
                   \o <<FilterLine("Filtering complete", s4.out, vs)>>]

-----------------------------------------------------------------------------
(* The inputs of the filters.  A list holds up to MaxVideos videos of a    *)
(* pool, the same video possibly more than once.                           *)

MaxVideos == 3

RECURSIVE ListsOf(_, _)
\* the lists of exactly n elements of S
ListsOf(S, n) == IF n = 0 THEN {<<>>} ELSE {Append(l, x) : l \in ListsOf(S, n - 1), x \in S}

ListsUpTo(S, n) == UNION {ListsOf(S, k) : k \in 0..n}

Iso(at) == [form |-> "iso", at |-> at]

Video(id, title, published_at, description, duration) ==
    [video_id |-> id, title |-> title, published_at |-> published_at,
     description |-> description, duration |-> duration]

\* the scores the library may give the pairs of a lower-cased pattern and a
\* lower-cased title
SimilarityTables(pats, titles, scores) ==
    [{<<lower(q), lower(t)>> : q \in pats, t \in titles} -> scores]

TitlePattern(pattern, fuzzy_threshold) == [pattern |-> pattern, fuzzy_threshold |-> fuzzy_threshold]

\* a clock reading of datetime.now() after the one taken at clock
LaterReadings(clock) == {clock, clock + 1}

-----------------------------------------------------------------------------
(* apply_all_filters called once on a list, under every combination of a   *)
(* configured and an unconfigured stage.  The pool holds a video that      *)
(* passes every stage, one that each stage alone drops, and one that two   *)
(* stages drop.                                                            *)

ChainVideos ==
    {Video("v1", <<"A", "b">>, Iso(9), <<"d">>, <<"P", "T", "1", "0", "M">>),
     Video("v2", <<"A", "b">>, Iso(1), <<"d">>, <<"P", "T", "1", "0", "M">>),
     Video("v3", <<"z", "z">>, Iso(9), <<"d">>, <<"P", "T", "1", "0", "M">>),
     Video("v4", <<"a", "B">>, Iso(9), <<"d">>, <<"P", "T", "1", "H">>),
     Video("v5", <<"A", "b">>, Iso(9), <<"a", "x">>, <<>>),
     Video("v6", <<"z", "z">>, Iso(1), <<"X">>, <<"P", "T", "1", "H">>)}

ChainConfigs ==
    [upload_window_days : {0, 1},
     title_patterns : {<<>>, <<TitlePattern(<<"a", "B">>, 50)>>},
     min_duration_minutes : {None},
     max_duration_minutes : {None, Some(30)},
     exclude_keywords : {<<>>, << <<"X">> >>}]

InitFilters ==
    /\ video = NoVideo
    /\ organize_by_season = TRUE
    /\ filename = <<>>
    /\ ret = NoCall
    /\ RunUnused
    /\ videos \in ListsUpTo(ChainVideos, MaxVideos)
    /\ config \in ChainConfigs
    /\ now = 10
    /\ similarity \in SimilarityTables({<<"a", "B">>}, {<<"z", "z">>}, {40, 80})
    /\ log = <<>>

\* one call of apply_all_filters on a fresh log
ApplyAllFilters ==
    /\ ret = NoCall
    /\ \E later \in LaterReadings(now) :
           LET r == apply_all_filters(config, videos, now, later)
           IN  /\ ret' = [op |-> "apply_all_filters", arg |-> videos, val |-> r.out]
               /\ log' = log \o r.lines
    /\ UNCHANGED <<naming_vars, videos, config, now, similarity, run_vars>>

NextFilters == ApplyAllFilters

SpecFilters == InitFilters /\ [][NextFilters]_vars

Applied == ret.op = "apply_all_filters"

\* the stage keeps the video when it is given the video alone
PassesRecency(v) == filter_by_upload_date(config, <<v>>, now, now).out = <<v>>

PassesTitle(v) == filter_by_title_patterns(config, <<v>>).out = <<v>>

PassesDuration(v) == filter_by_duration(config, <<v>>).out = <<v>>

PassesExclusion(v) == filter_by_exclude_keywords(config, <<v>>).out = <<v>>

PassesAllFour(v) == PassesRecency(v) /\ PassesTitle(v) /\ PassesDuration(v) /\ PassesExclusion(v)

\* the place of a stage in the order recency, title-pattern, duration,
\* exclusion-keyword, by the line the stage logs
StageRank(msg) ==
    CASE msg = "Upload date filter" -> 1
      [] msg = "Title pattern filter" -> 2
      [] msg = "Duration filter" -> 3
      [] msg = "Exclude keywords filter" -> 4
      [] OTHER -> 0

\* the stages that are configured, by rank
ConfiguredStages ==
    {k \in 1..4 : \/ k = 1 /\ config.upload_window_days > 0
                  \/ k = 2 /\ config.title_patterns # <<>>
                  \/ k = 3 /\ (config.min_duration_minutes # None \/ config.max_duration_minutes # None)
                  \/ k = 4 /\ config.exclude_keywords # <<>>}

\* C12: apply_all_filters runs the stages in the order recency, title-pattern,
\* duration, exclusion-keyword, each on what the stage before it let through; its
\* result is the input items that pass all four stages, in their input order, none
\* added, duplicated or reordered; the input list and the configuration stay as
\* they were.
C12_FixedOrderChain ==
    /\ [](Applied =>
            LET n == Len(log)
            IN  /\ ret.val = SelectSeq(ret.arg, PassesAllFour)
                /\ ret.arg = videos
                /\ n >= 2
                /\ log[1] = [msg |-> "Starting to filter", passed |-> Len(ret.arg), of |-> Len(ret.arg)]
                /\ log[n] = [msg |-> "Filtering complete", passed |-> Len(ret.val), of |-> Len(ret.arg)]
                /\ {StageRank(log[i].msg) : i \in 2..(n - 1)} = ConfiguredStages
                /\ \A i \in 2..(n - 1) :
                       /\ i > 2 => StageRank(log[i - 1].msg) < StageRank(log[i].msg)
                       /\ log[i].of = log[i - 1].passed
                /\ log[n - 1].passed = Len(ret.val))
    /\ [][videos' = videos /\ config' = config]_vars

\* all four stages ran on three videos, two of the stages dropped one video each
\* and the video between the two dropped ones came out
C12_Witness ==
    /\ Applied
    /\ Len(log) = 6
    /\ Len(ret.arg) = 3
    /\ ret.val = <<ret.arg[2]>>
    /\ Cardinality({i \in 2..5 : log[i].passed < log[i].of}) = 2

-----------------------------------------------------------------------------
(* Each filter called once on a list.  The inputs exercise one filter at a *)
(* time: its configuration varies, the other filters stay unconfigured,    *)
(* and the videos differ in the field that filter reads.  With the clock   *)
(* at 10 and a window of one day the cutoff is 8.                          *)

MaxPatterns == 2

FilterNames == {"upload_date", "title_patterns", "duration", "exclude_keywords"}

PlainVideo(id) == Video(id, <<"A", "b">>, Iso(9), <<"d">>, <<"P", "T", "5", "M">>)

\* the videos a filter is tried on
VideoPool(name) ==
    CASE name = "upload_date" ->
             {[PlainVideo("v1") EXCEPT !.published_at = pa] :
                 pa \in {Iso(5), Iso(7), Iso(8), Iso(9), [form |-> "rss", at |-> 1],
                         [form |-> "rss_lower", at |-> 1], [form |-> "rss_lower", at |-> 9],
                         [form |-> "date", at |-> 1]}}
      [] name = "title_patterns" ->
             {[PlainVideo("v1") EXCEPT !.title = t] : t \in {<<"x", "A", "B">>, <<"z", "z">>}}
      [] name = "duration" ->
             {[PlainVideo("v1") EXCEPT !.duration = d] :
                 d \in {<<>>, <<"P", "1", "D">>, <<"P", "T", "5", "M">>, <<"P", "T", "1", "0", "M">>,
                        <<"P", "T", "9", "M", "3", "0", "S">>, <<"P", "T", "1", "H", "5", "M">>}}
      [] name = "exclude_keywords" ->
             {[PlainVideo("v1") EXCEPT !.title = td[1], !.description = td[2]] :
                 td \in {<< <<"A", "b">>, <<"d">> >>, << <<"x", "K", "E", "y">>, <<"d">> >>,
                         << <<"A", "b">>, <<"a", " ", "k", "e", "y">> >>, << <<"k">>, <<"e", "y">> >>}}

\* the configurations a filter is tried under
ConfigPool(name) ==
    CASE name = "upload_date" ->
             {[DefaultFilters EXCEPT !.upload_window_days = w] : w \in {-1, 0, 1, 2}}
      [] name = "title_patterns" ->
             {[DefaultFilters EXCEPT !.upload_window_days = 0, !.title_patterns = ps] :
                 ps \in ListsUpTo({TitlePattern(q, th) : q \in {<<"A", "b">>, <<"C">>}, th \in {50, 80}},
                                  MaxPatterns)}
      [] name = "duration" ->
             {c \in [upload_window_days : {0}, title_patterns : {<<>>},
                     min_duration_minutes : {None, Some(0), Some(10)},
                     max_duration_minutes : {None, Some(10), Some(60)},
                     exclude_keywords : {<<>>}] :
                 c.min_duration_minutes # None /\ c.max_duration_minutes # None
                     => c.max_duration_minutes[1] > c.min_duration_minutes[1]}
      [] name = "exclude_keywords" ->
             {[DefaultFilters EXCEPT !.upload_window_days = 0, !.exclude_keywords = ks] :
                 ks \in ListsUpTo({<<"K", "e", "y">>, <<"B">>}, MaxPatterns)}

InitStages ==
    /\ video = NoVideo
    /\ organize_by_season = TRUE
    /\ filename = <<>>
    /\ ret = NoCall
    /\ RunUnused
    /\ now = 10
    /\ log = <<>>
    /\ \E name \in FilterNames :
           /\ videos \in ListsUpTo(VideoPool(name), MaxVideos)
           /\ config \in ConfigPool(name)
    /\ similarity \in SimilarityTables({<<"A", "b">>, <<"C">>}, {<<"x", "A", "B">>, <<"z", "z">>}, {40, 80})
    /\ similarity[<< <<"a", "b">>, <<"x", "a", "b">> >>] = 80
    /\ config.title_patterns = <<>> => \A pr \in DOMAIN similarity : similarity[pr] = 80

\* one call of filter_by_upload_date
FilterByUploadDate ==
    /\ ret = NoCall
    /\ \E later \in LaterReadings(now) :
           LET r == filter_by_upload_date(config, videos, now, later)
           IN  /\ ret' = [op |-> "filter_by_upload_date", arg |-> videos, val |-> r.out]
               /\ log' = log \o r.lines
    /\ UNCHANGED <<naming_vars, videos, config, now, similarity, run_vars>>

\* one call of filter_by_title_patterns
FilterByTitlePatterns ==
    /\ ret = NoCall
    /\ LET r == filter_by_title_patterns(config, videos)
       IN  /\ ret' = [op |-> "filter_by_title_patterns", arg |-> videos, val |-> r.out]
           /\ log' = log \o r.lines
    /\ UNCHANGED <<naming_vars, videos, config, now, similarity, run_vars>>

\* one call of filter_by_duration
FilterByDuration ==
    /\ ret = NoCall
    /\ LET r == filter_by_duration(config, videos)
       IN  /\ ret' = [op |-> "filter_by_duration", arg |-> videos, val |-> r.out]
           /\ log' = log \o r.lines
    /\ UNCHANGED <<naming_vars, videos, config, now, similarity, run_vars>>

\* one call of filter_by_exclude_keywords
FilterByExcludeKeywords ==
    /\ ret = NoCall
    /\ LET r == filter_by_exclude_keywords(config, videos)
       IN  /\ ret' = [op |-> "filter_by_exclude_keywords", arg |-> videos, val |-> r.out]
           /\ log' = log \o r.lines
    /\ UNCHANGED <<naming_vars, videos, config, now, similarity, run_vars>>

NextStages ==
    \/ FilterByUploadDate
    \/ FilterByTitlePatterns
    \/ FilterByDuration
    \/ FilterByExcludeKeywords

SpecStages == InitStages /\ [][NextStages]_vars

Dated == ret.op = "filter_by_upload_date"

\* the age of a video in ticks: the clock less the instant written in published_at
Age(v) == now - v.published_at.at

\* C13, for the lists whose published_at are in the two formats published_datetime
\* names, ISO and RSS: filter_by_upload_date keeps a video if and only if its age
\* is at most upload_window_days, the boundary included; with a window of 0 or
\* less it keeps every video.
C13_KeepsWithinWindow ==
    (Dated /\ \A i \in 1..Len(ret.arg) : ret.arg[i].published_at.form \in {"iso", "rss"}) =>
        ret.val = IF config.upload_window_days <= 0 THEN ret.arg
                  ELSE SelectSeq(ret.arg,
                                 LAMBDA v : Age(v) <= config.upload_window_days * TicksPerDay)

Titled == ret.op = "filter_by_title_patterns"

\* q occurs in t when the case of the letters is ignored
OccursIgnoringCase(q, t) ==
    \E k \in 0..(Len(t) - Len(q)) : \A j \in 1..Len(q) : Fold(t[k + j]) = Fold(q[j])

\* the configured patterns, as a set
PatternSet == {config.title_patterns[i] : i \in 1..Len(config.title_patterns)}

\* some configured pattern occurs in the title, or scores at or above its own
\* threshold against the lower-cased title
SomePatternMatches(v) ==
    \E tp \in PatternSet :
        \/ OccursIgnoringCase(tp.pattern, v.title)
        \/ similarity[<<lower(tp.pattern), lower(v.title)>>] >= tp.fuzzy_threshold

\* C14: filter_by_title_patterns keeps every video when no pattern is configured;
\* otherwise it keeps a video if and only if some configured pattern occurs in the
\* title, case ignored, or scores at or above its own threshold against the
\* lower-cased title; only the set of patterns counts, not their order.
C14_AnyPatternMatches ==
    Titled =>
        ret.val = IF config.title_patterns = <<>> THEN ret.arg
                  ELSE SelectSeq(ret.arg, SomePatternMatches)

\* two patterns and two videos: the first pattern neither occurs in the kept video
\* nor reaches its threshold, the second occurs in it in another case; the other
\* video is dropped
C14_Witness ==
    /\ Titled
    /\ Len(config.title_patterns) = 2
    /\ Len(ret.arg) = 2 /\ Len(ret.val) = 1
    /\ LET v == ret.val[1]
           p1 == config.title_patterns[1]
           p2 == config.title_patterns[2]
       IN  /\ ~OccursIgnoringCase(p1.pattern, v.title)
           /\ similarity[<<lower(p1.pattern), lower(v.title)>>] < p1.fuzzy_threshold
           /\ OccursIgnoringCase(p2.pattern, v.title)
           /\ ~occurs_in(p2.pattern, v.title)

Timed == ret.op = "filter_by_duration"

\* the duration of the video is known and within the configured bounds
WithinBounds(v) ==
    LET mins == duration_minutes(v)[1]
    IN  /\ config.min_duration_minutes # None => config.min_duration_minutes[1] <= mins
        /\ config.max_duration_minutes # None => mins <= config.max_duration_minutes[1]

KnownDurationOutOfBounds(v) == duration_minutes(v) # None /\ ~WithinBounds(v)

\* C15: filter_by_duration keeps every video when neither bound is configured;
\* it always keeps a video whose duration is unknown or missing; and otherwise it
\* keeps a video if and only if min <= duration_minutes <= max, each bound
\* applied only when it is configured.
C15_UnknownKeptElseBounds ==
    Timed =>
        /\ (config.min_duration_minutes = None /\ config.max_duration_minutes = None)
               => ret.val = ret.arg
        /\ ret.val = SelectSeq(ret.arg, LAMBDA v : ~KnownDurationOutOfBounds(v))
        /\ \A i \in 1..Len(ret.arg) :
               ret.arg[i].duration = <<>> => \E j \in 1..Len(ret.val) : ret.val[j] = ret.arg[i]

\* under a minimum of 10 minutes: a video without duration and one whose duration
\* is not in the PT format are kept, one of 5 minutes is dropped
C15_Witness ==
    /\ Timed
    /\ config.min_duration_minutes = Some(10)
    /\ Len(ret.arg) = 3 /\ Len(ret.val) = 2
    /\ ret.val[1].duration = <<>>
    /\ ret.val[2].duration = <<"P", "1", "D">>
    /\ \E i \in 1..3 : duration_minutes(ret.arg[i]) = Some(5)

Screened == ret.op = "filter_by_exclude_keywords"

\* some configured keyword occurs, case ignored, in the title or in the
\* description of the video
SomeKeywordOccurs(v) ==
    \E kw \in {config.exclude_keywords[i] : i \in 1..Len(config.exclude_keywords)} :
        OccursIgnoringCase(kw, v.title) \/ OccursIgnoringCase(kw, v.description)

\* C16: filter_by_exclude_keywords keeps every video when no keyword is
\* configured; otherwise it drops a video if and only if some keyword occurs, case
\* ignored, in the video's title or in its description.
C16_DropsOnKeyword ==
    Screened =>
        ret.val = IF config.exclude_keywords = <<>> THEN ret.arg
                  ELSE SelectSeq(ret.arg, LAMBDA v : ~SomeKeywordOccurs(v))

\* three videos: one dropped for its title, one for its description, both in
\* another case than the keyword's, and one kept whose title and description
\* hold the keyword only when put together
C16_Witness ==
    /\ Screened
    /\ Len(ret.arg) = 3 /\ Len(ret.val) = 1
    /\ \E kw \in {config.exclude_keywords[i] : i \in 1..Len(config.exclude_keywords)} :
          /\ \E i \in 1..3 : /\ OccursIgnoringCase(kw, ret.arg[i].title)
                             /\ ~occurs_in(kw, ret.arg[i].title)
                             /\ ~OccursIgnoringCase(kw, ret.arg[i].description)
          /\ \E i \in 1..3 : /\ OccursIgnoringCase(kw, ret.arg[i].description)
                             /\ ~occurs_in(kw, ret.arg[i].description)
                             /\ ~OccursIgnoringCase(kw, ret.arg[i].title)
          /\ OccursIgnoringCase(kw, ret.val[1].title \o ret.val[1].description)

-----------------------------------------------------------------------------
(* Loading the configuration: config.py.  The content of the file is a     *)
(* record of the keys the validators look at, a key the file leaves out    *)
(* being None; the other sections of the file are taken to be valid.       *)

\* re.match of a literal: the position after s when t holds s from pos on, 0 otherwise
AfterLiteral(t, pos, s) ==
    IF pos > 0 /\ pos + Len(s) - 1 <= Len(t) /\ SubSeq(t, pos, pos + Len(s) - 1) = s
    THEN pos + Len(s)
    ELSE 0

\* the four forms of youtube_patterns, by what follows youtube.com/
ChannelForms ==
    {<<"@">>, <<"c", "h", "a", "n", "n", "e", "l", "/">>, <<"c", "/">>, <<"u", "s", "e", "r", "/">>}

\* YouTubeConfig.validate_channel_url: some pattern matches at the start of v, that
\* is https?://(?:www\.)?youtube\.com/ then a form then one character of [\w-]
validate_channel_url(v) ==
    LET Optional(pos, lit) == IF AfterLiteral(v, pos, lit) > 0 THEN AfterLiteral(v, pos, lit) ELSE pos
        scheme == AfterLiteral(v, Optional(AfterLiteral(v, 1, <<"h", "t", "t", "p">>), <<"s">>),
                               <<":", "/", "/">>)
        www == IF scheme > 0 THEN Optional(scheme, <<"w", "w", "w", ".">>) ELSE 0
        host == AfterLiteral(v, www, <<"y", "o", "u", "t", "u", "b", "e", ".", "c", "o", "m", "/">>)
    IN  \E form \in ChannelForms :
            LET name == AfterLiteral(v, host, form)
            IN  /\ name > 0
                /\ name <= Len(v)
                /\ v[name] \in WordSet \cup {"-"}

\* upload_window_days: int = Field(default=7, ge=1)
UploadWindowValid(data) ==
    data.upload_window_days = None \/ data.upload_window_days[1] >= 1

\* min_duration_minutes: Optional[int] = Field(default=None, ge=0)
MinDurationValid(data) ==
    data.min_duration_minutes = None \/ data.min_duration_minutes[1] >= 0

\* FiltersConfig.validate_duration_range, accepting a maximum equal to the minimum
validate_duration_range_or_equal(data) ==
    ~ /\ data.max_duration_minutes # None
      /\ MinDurationValid(data)
      /\ data.min_duration_minutes # None
      /\ data.max_duration_minutes[1] < data.min_duration_minutes[1]

\* FiltersConfig.validate_duration_range: the minimum is among the values only
\* when it was itself valid
validate_duration_range(data) ==
    ~ /\ data.max_duration_minutes # None
      /\ MinDurationValid(data)
      /\ data.min_duration_minutes # None
      /\ data.max_duration_minutes[1] <= data.min_duration_minutes[1]

\* Config(**config_data) raises nothing: the validator of the channel reference,
\* the constraints of the fields of FiltersConfig, and the validator of the maximum
ConfigValid(data) ==
    /\ validate_channel_url(data.channel_url)
    /\ UploadWindowValid(data)
    /\ MinDurationValid(data)
    /\ data.max_duration_minutes = None \/ data.max_duration_minutes[1] >= 1
    /\ validate_duration_range(data)

\* the FiltersConfig built from valid data
FiltersOf(data) ==
    [upload_window_days |-> IF data.upload_window_days = None
                            THEN DefaultFilters.upload_window_days
                            ELSE data.upload_window_days[1],
     title_patterns |-> <<>>,
     min_duration_minutes |-> data.min_duration_minutes,
     max_duration_minutes |-> data.max_duration_minutes,
     exclude_keywords |-> data.exclude_keywords]

\* load_config: the configuration, or the exception it raises
load_config(file) ==
    IF file = None THEN [raised |-> "FileNotFoundError"]
    ELSE IF ~ConfigValid(file[1]) THEN [raised |-> "ValueError"]
    ELSE [raised |-> "", filters |-> FiltersOf(file[1])]

-----------------------------------------------------------------------------
(* The process: main() and YouTubeToPlexDownloader.check_and_download.     *)
(* events holds, in order, the calls made to the collaborators: "fetch"    *)
(* the Channel Source, "filter" the Filter Chain, "exists" the existence   *)
(* check of the item at position k of new_videos, "download" the Download  *)
(* Executor on that item, "cleanup" the partial-file cleanup and "return"  *)
(* the return of the summary; "raised" follows a call that raised out of   *)
(* its stage, "failed" a check or a download of item k that raised, which  *)
(* download_videos catches.                                                *)

Event(e, k) == [e |-> e, k |-> k]

\* the statement of main() that prints msg, and the exit with code
Exit(msg, code) == exit_status' = [printed |-> Append(exit_status.printed, msg), code |-> Some(code)]

\* the handler starting from a fresh summary
Caught_fresh(res) == [EmptyResults EXCEPT !.errors = <<"Error in check and download process">>]

\* the handler of check_and_download: the error is appended, the summary returned
Caught(res) == [res EXCEPT !.errors = Append(@, "Error in check and download process")]

\* the entry of videos_processed for a video
video_info(v, status) ==
    [video_id |-> v.video_id, title |-> v.title, published |-> published_datetime(v, now),
     duration_minutes |-> duration_minutes(v), download_status |-> status]

\* check_and_download never returning at "if dry_run:"
StopsAfterListing_never == FALSE

\* "if dry_run:" of check_and_download, after the videos have been listed
StopsAfterListing == dry_run

\* YouTubeToPlexDownloader(args.config) in main(): load_config comes first, and
\* what it raises is printed by main() as a fatal error
Construct ==
    /\ pc = "start"
    /\ LET loaded == load_config(config_data)
       IN  IF loaded.raised # ""
           THEN /\ Exit("Fatal error", 1)
                /\ pc' = "exited"
                /\ UNCHANGED config
           ELSE /\ config' = loaded.filters
                /\ pc' = "ready"
                /\ UNCHANGED exit_status
    /\ UNCHANGED <<naming_vars, ret, videos, now, similarity, log, dry_run, storage, client, config_data, feed,
                   new_videos, next_index, download_results, results, events, files>>

\* check_and_download up to the answer of the Channel Source
CheckForNewVideos ==
    /\ pc = "ready"
    /\ IF feed = None
       THEN /\ results' = Caught(EmptyResults)
            /\ events' = events \o <<Event("fetch", 0), Event("raised", 0), Event("return", 0)>>
            /\ pc' = "returned"
            /\ UNCHANGED videos
       ELSE IF feed[1] = <<>>
       THEN /\ results' = EmptyResults
            /\ events' = events \o <<Event("fetch", 0), Event("return", 0)>>
            /\ pc' = "returned"
            /\ UNCHANGED videos
       ELSE /\ results' = EmptyResults
            /\ events' = Append(events, Event("fetch", 0))
            /\ videos' = feed[1]
            /\ pc' = "filtering"
    /\ UNCHANGED <<naming_vars, ret, config, now, similarity, log, dry_run, storage, client, config_data, feed,
                   new_videos, next_index, download_results, files, exit_status>>

\* the Filter Chain, then check_and_download up to the call of download_videos
ApplyFilters ==
    /\ pc = "filtering"
    /\ \E raised \in BOOLEAN :
           IF raised
           THEN /\ results' = Caught(results)
                /\ events' = events \o <<Event("raised", 0), Event("return", 0)>>
                /\ pc' = "returned"
                /\ UNCHANGED <<new_videos, log>>
           ELSE LET r == apply_all_filters(config, videos, now, now)
                    found == [results EXCEPT !.new_videos_found = Len(r.out)]
                    listed == [found EXCEPT !.videos_processed =
                                  [k \in 1..Len(r.out) |-> video_info(r.out[k], "pending")]]
                IN  /\ new_videos' = r.out
                    /\ log' = log \o r.lines
                    /\ IF r.out = <<>>
                       THEN /\ results' = found
                            /\ events' = events \o <<Event("filter", 0), Event("return", 0)>>
                            /\ pc' = "returned"
                       ELSE IF StopsAfterListing
                       THEN /\ results' = listed
                            /\ events' = events \o <<Event("filter", 0), Event("return", 0)>>
                            /\ pc' = "returned"
                       ELSE /\ results' = [listed EXCEPT !.downloads_attempted = Len(r.out)]
                            /\ events' = Append(events, Event("filter", 0))
                            /\ pc' = "downloading"
    /\ UNCHANGED <<naming_vars, ret, videos, config, now, similarity, dry_run, storage, client, config_data, feed,
                   next_index, download_results, files, exit_status>>

\* where the media file of a video of the channel goes: generate_plex_path
output_path(v) ==
    generate_plex_path([title |-> v.title, channel_title |-> <<"C", "h">>], base_dir, organize_by_season)

\* download_results[video_id] = success
Recorded(id, success) ==
    [i \in DOMAIN download_results \cup {id} |-> IF i = id THEN success ELSE download_results[i]]

\* the loop of download_videos ending one video early
Exhausted_one_early == next_index >= Len(new_videos)

\* the loop of download_videos has gone through its list
Exhausted == next_index > Len(new_videos)

\* str.startswith and str.endswith
startswith(t, p) == Len(p) <= Len(t) /\ SubSeq(t, 1, Len(p)) = p

endswith(t, p) == Len(p) <= Len(t) /\ SubSeq(t, Len(t) - Len(p) + 1, Len(t)) = p

\* the media extensions download_manager.py looks for, in its order
MediaExtensions ==
    << <<".", "m", "p", "4">>, <<".", "m", "k", "v">>, <<".", "w", "e", "b", "m">>,
       <<".", "m", "4", "a">>, <<".", "m", "p", "3">>, <<".", "f", "l", "v">> >>

\* pathlib's suffix of a file name: from its last dot on, when that dot is
\* neither the first nor the last character
suffix(name) ==
    LET dots == {i \in 2..(Len(name) - 1) : name[i] = "."}
        last == CHOOSE i \in dots : \A j \in dots : j <= i
    IN  IF dots = {} \/ name[Len(name)] = "." THEN <<>> ELSE SubSeq(name, last, Len(name))

\* a file of directory dir
File(dir, name, size) == [dir |-> dir, name |-> name, size |-> size]

\* is_already_downloaded accepting an empty file
is_already_downloaded_any_size(p, fs) ==
    \E k \in 1..Len(MediaExtensions), f \in fs :
        /\ f.dir = p[1]
        /\ f.name = p[2] \o MediaExtensions[k]

\* DownloadManager.is_already_downloaded: a file of size > 0 named by the stem
\* and a media extension is in the output directory
is_already_downloaded(p, fs) ==
    \E k \in 1..Len(MediaExtensions), f \in fs :
        /\ f.dir = p[1]
        /\ f.name = p[2] \o MediaExtensions[k]
        /\ f.size > 0

\* what a run of the Download Executor on outtmpl = stem.%(ext)s leaves on disk.
\* It raises or returns; when it raises it may leave a .part file; when it
\* returns, the file stem.ext is on disk: written by this run, or the file of
\* that name that was there before, left as it was
YoutubeDL(p, fs, outcome) ==
    LET dir == p[1]
        target == p[2] \o outcome.ext
    IN  IF outcome.raised
        THEN IF outcome.part THEN fs \cup {File(dir, target \o <<".", "p", "a", "r", "t">>, 1)} ELSE fs
        ELSE IF outcome.overwrites
        THEN {f \in fs : f.dir # dir \/ f.name # target} \cup {File(dir, target, 1)}
        ELSE IF \E f \in fs : f.dir = dir /\ f.name = target THEN fs ELSE fs \cup {File(dir, target, 1)}

\* the files "Find the downloaded file" of download_video may settle on: a file
\* stem.* with a media suffix, else a file of the first media extension, in the
\* order of the list, that some file of the directory starting with the first
\* 20 characters of the stem ends with
downloaded_file(p, fs) ==
    LET dir == p[1]
        stem == p[2]
        head == SubSeq(stem, 1, IF Len(stem) < 20 THEN Len(stem) ELSE 20)
        named == {f \in fs : /\ f.dir = dir
                             /\ startswith(f.name, stem \o <<".">>)
                             /\ \E k \in 1..Len(MediaExtensions) : suffix(f.name) = MediaExtensions[k]}
        partial(k) == {f \in fs : f.dir = dir /\ endswith(f.name, MediaExtensions[k])
                                              /\ startswith(f.name, head)}
        exts == {k \in 1..Len(MediaExtensions) : partial(k) # {}}
    IN  IF named # {} THEN named
        ELSE IF exts = {} THEN {}
        ELSE partial(CHOOSE k \in exts : \A m \in exts : k <= m)

\* the NFO file named by appending .nfo to the name of the media file
nfo_path_appended(f) == File(f.dir, f.name \o <<".", "n", "f", "o">>, 1)

\* the path _create_nfo_file writes: Path(video_path).with_suffix('.nfo')
nfo_path(f) ==
    File(f.dir, SubSeq(f.name, 1, Len(f.name) - Len(suffix(f.name))) \o <<".", "n", "f", "o">>, 1)

\* download_videos at its next video: download_video begins with
\* is_already_downloaded; what raises is caught by download_videos
IsAlreadyDownloaded ==
    /\ pc = "downloading"
    /\ next_index <= Len(new_videos)
    /\ \E raised \in BOOLEAN :
           LET v == new_videos[next_index]
           IN  /\ events' = events \o <<Event("exists", next_index)>>
                                   \o (IF raised THEN <<Event("failed", next_index)>> ELSE <<>>)
               /\ IF raised \/ is_already_downloaded(output_path(v), files)
                  THEN /\ download_results' = Recorded(v.video_id, ~raised)
                       /\ ret' = [op |-> "download_video", arg |-> next_index,
                                  val |-> [success |-> ~raised, file |-> None, nfo_raised |-> FALSE]]
                       /\ next_index' = next_index + 1
                       /\ pc' = "downloading"
                  ELSE /\ pc' = "executing"
                       /\ UNCHANGED <<download_results, next_index, ret>>
    /\ UNCHANGED <<naming_vars, filter_vars, dry_run, storage, client, config_data, feed, new_videos,
                   results, files, exit_status>>

\* download_video from the call of the Download Executor on: the file is
\* looked for, its NFO file written unless generate_metadata is off or the
\* write raises (which _create_nfo_file catches), and True returned; any
\* exception gives False
download_video(v, p, outcome, nfo_raised) ==
    LET left == YoutubeDL(p, files, outcome)
        found == downloaded_file(p, left)
        success == ~outcome.raised /\ found # {}
    IN  /\ IF outcome.raised THEN ~outcome.overwrites ELSE ~outcome.part
        /\ nfo_raised => success /\ storage.generate_metadata
        /\ events' = events \o <<Event("download", next_index)>>
                            \o (IF success THEN <<>> ELSE <<Event("failed", next_index)>>)
        /\ download_results' = Recorded(v.video_id, success)
        /\ IF success
           THEN \E f \in found :
                    /\ files' = IF storage.generate_metadata /\ ~nfo_raised
                                THEN {g \in left : g.dir # f.dir \/ g.name # nfo_path(f).name}
                                         \cup {nfo_path(f)}
                                ELSE left
                    /\ ret' = [op |-> "download_video", arg |-> next_index,
                               val |-> [success |-> TRUE, file |-> Some(f), nfo_raised |-> nfo_raised]]
           ELSE /\ files' = left
                /\ ret' = [op |-> "download_video", arg |-> next_index,
                           val |-> [success |-> FALSE, file |-> None, nfo_raised |-> FALSE]]

\* download_videos calling download_video on a video that is not on disk yet,
\* with any outcome of the Download Executor and of the write of the NFO file
Download ==
    /\ pc = "executing"
    /\ \E outcome \in [raised : BOOLEAN, part : BOOLEAN, overwrites : BOOLEAN,
                       ext : {MediaExtensions[1], <<".", "m", "o", "v">>}], nfo_raised \in BOOLEAN :
           download_video(new_videos[next_index], output_path(new_videos[next_index]), outcome, nfo_raised)
    /\ next_index' = next_index + 1
    /\ pc' = "downloading"
    /\ UNCHANGED <<naming_vars, filter_vars, dry_run, storage, client, config_data, feed, new_videos,
                   results, exit_status>>

\* the "Update results" loop counting each video_id of download_results once
Updated_per_id(res) ==
    LET status(info) == IF info.video_id \notin DOMAIN download_results THEN info.download_status
                        ELSE IF download_results[info.video_id] THEN "success" ELSE "failed"
        entries == [k \in 1..Len(res.videos_processed) |->
                       [res.videos_processed[k] EXCEPT !.download_status = status(res.videos_processed[k])]]
    IN  [res EXCEPT !.videos_processed = entries,
                    !.downloads_successful = Cardinality({i \in DOMAIN download_results : download_results[i]}),
                    !.downloads_failed = Cardinality({i \in DOMAIN download_results : ~download_results[i]})]

\* the "Update results" loop of check_and_download
Updated(res) ==
    LET status(info) == IF info.video_id \notin DOMAIN download_results THEN info.download_status
                        ELSE IF download_results[info.video_id] THEN "success" ELSE "failed"
        entries == [k \in 1..Len(res.videos_processed) |->
                       [res.videos_processed[k] EXCEPT !.download_status = status(res.videos_processed[k])]]
    IN  [res EXCEPT !.videos_processed = entries,
                    !.downloads_successful = Cardinality({k \in 1..Len(entries) : entries[k].download_status = "success"}),
                    !.downloads_failed = Cardinality({k \in 1..Len(entries) : entries[k].download_status = "failed"})]

\* the files cleanup_partial_downloads tries to delete: those below base_dir
\* whose name matches *.part, *.tmp or *.ytdl
partial_downloads_any_suffix(fs) == {f \in fs : startswith(f.dir, base_dir)}

partial_downloads(fs) ==
    {f \in fs : /\ startswith(f.dir, base_dir)
                /\ \E pattern \in {<<".", "p", "a", "r", "t">>, <<".", "t", "m", "p">>,
                                    <<".", "y", "t", "d", "l">>} : endswith(f.name, pattern)}

\* DownloadManager.cleanup_partial_downloads: nothing when the option is off;
\* else every such file is unlinked, and those whose unlink raises stay
cleanup_partial_downloads(fs, undeletable) ==
    IF storage.cleanup_partial_downloads THEN fs \ (partial_downloads(fs) \ undeletable) ELSE fs

\* check_and_download after download_videos: the results are updated, the
\* partial files cleaned up and the summary returned; the scan of the
\* directories may raise after any number of deletions
Summarize ==
    /\ pc = "downloading"
    /\ Exhausted
    /\ \E raised \in BOOLEAN, undeletable \in SUBSET partial_downloads(files) :
           /\ IF raised
              THEN /\ results' = Caught(Updated(results))
                   /\ events' = events \o <<Event("cleanup", 0), Event("raised", 0), Event("return", 0)>>
              ELSE /\ results' = Updated(results)
                   /\ events' = events \o <<Event("cleanup", 0), Event("return", 0)>>
           /\ files' = cleanup_partial_downloads(files, undeletable)
           /\ ret' = [op |-> "cleanup_partial_downloads", arg |-> files,
                      val |-> [raised |-> raised, undeletable |-> undeletable]]
    /\ pc' = "returned"
    /\ UNCHANGED <<naming_vars, filter_vars, dry_run, storage, client, config_data, feed, new_videos,
                   next_index, download_results, exit_status>>

\* KeyboardInterrupt during check_and_download: no handler of the class catches
\* it, main() prints that the process was interrupted and exits
Interrupt ==
    /\ pc \in {"filtering", "downloading", "executing"}
    /\ Exit("Process interrupted by user", 1)
    /\ pc' = "exited"
    /\ UNCHANGED <<naming_vars, filter_vars, ret, dry_run, storage, client, config_data, feed, new_videos,
                   next_index, download_results, results, events, files>>

\* main() after check_and_download returned
Report ==
    /\ pc = "returned"
    /\ IF results.errors # <<>> THEN Exit("Errors", 1) ELSE Exit("Process completed successfully", 0)
    /\ pc' = "exited"
    /\ UNCHANGED <<naming_vars, filter_vars, ret, dry_run, storage, client, config_data, feed, new_videos,
                   next_index, download_results, results, events, files>>

-----------------------------------------------------------------------------
(* SpecMain: one process.  Either any configuration file of the pool with  *)
(* one video on the channel, or one valid file with any feed of the pool.  *)

\* the videos of the channel: the keyword of the file occurs in the title of v2,
\* and v4 has the title of v1
ChannelVideos ==
    {PlainVideo("v1"), [PlainVideo("v2") EXCEPT !.title = <<"x">>],
     [PlainVideo("v3") EXCEPT !.title = <<"C">>], PlainVideo("v4")}

InitMain ==
    /\ video = NoVideo
    /\ organize_by_season = TRUE
    /\ filename = <<>>
    /\ ret = NoCall
    /\ videos = <<>>
    /\ config = DefaultFilters
    /\ now = 10
    /\ similarity = <<>>
    /\ log = <<>>
    /\ pc = "start"
    /\ new_videos = <<>>
    /\ next_index = 1
    /\ download_results = <<>>
    /\ results = EmptyResults
    /\ events = <<>>
    /\ exit_status = [printed |-> <<>>, code |-> None]
    /\ storage = DefaultStorage
    /\ client = NoClient
    /\ LET \* channel references: a scheme, www or not, a host, a form and a name
           urls == {scheme \o www \o host \o form \o name :
                       scheme \in {<<"h", "t", "t", "p", "s", ":", "/", "/">>,
                                   <<"h", "t", "t", "p", ":", "/", "/">>, <<>>},
                       www \in {<<"w", "w", "w", ".">>, <<>>},
                       host \in {<<"y", "o", "u", "t", "u", "b", "e", ".", "c", "o", "m", "/">>,
                                 <<"y", "o", "u", "t", "u", ".", "b", "e", "/">>},
                       form \in {<<"@">>, <<"c", "h", "a", "n", "n", "e", "l", "/">>,
                                 <<"w", "a", "t", "c", "h", "?", "v", "=">>},
                       name \in {<<>>, <<"a", "-", "1">>,
                                 <<"U", "C", "_", "x", "/", "v", "i", "d", "e", "o", "s">>}}
           \* the files main() may be started on, None when there is no file
           pool == {None} \cup
                   {Some(d) : d \in [channel_url : urls,
                                     upload_window_days : {None, Some(-1), Some(0), Some(1)},
                                     min_duration_minutes : {None, Some(-1), Some(5)},
                                     max_duration_minutes : {None, Some(0), Some(4), Some(5), Some(6)},
                                     exclude_keywords : {<< <<"x">> >>}]}
           \* a file every validator accepts
           valid == Some([channel_url |-> <<"h", "t", "t", "p", "s", ":", "/", "/", "w", "w", "w", ".",
                                            "y", "o", "u", "t", "u", "b", "e", ".", "c", "o", "m", "/",
                                            "@", "a", "-", "1">>,
                          upload_window_days |-> None, min_duration_minutes |-> None,
                          max_duration_minutes |-> None, exclude_keywords |-> << <<"x">> >>])
           \* the answers of the Channel Source: None when it raises, else videos
           \* with different video_ids
           feeds == {None} \cup
                    {Some(l) : l \in {f \in ListsUpTo(ChannelVideos, MaxVideos) :
                                         \A i, j \in 1..Len(f) : i # j => f[i] # f[j]}}
       IN  \/ /\ config_data \in pool
              /\ dry_run = FALSE
              /\ feed = Some(<<PlainVideo("v1")>>)
              /\ files = {}
           \/ /\ config_data = valid
              /\ dry_run \in BOOLEAN
              /\ feed \in feeds
              /\ files \in SUBSET {File(p[1], p[2] \o MediaExtensions[2], 1) :
                                      p \in {output_path(v) : v \in {PlainVideo("v1"),
                                                  [PlainVideo("v3") EXCEPT !.title = <<"C">>]}}}

NextMain ==
    \/ Construct
    \/ CheckForNewVideos
    \/ ApplyFilters
    \/ IsAlreadyDownloaded
    \/ Download
    \/ Summarize
    \/ Interrupt
    \/ Report

SpecMain == InitMain /\ [][NextMain]_vars

-----------------------------------------------------------------------------
(* SpecBatch: one process on a valid file, with files on disk before it    *)
(* starts, any StorageConfig and a Channel Source that may list a video    *)
(* twice.                                                                  *)

\* the longest list the Channel Source answers with
MaxBatch == 2

InitBatch ==
    /\ video = NoVideo
    /\ organize_by_season = TRUE
    /\ filename = <<>>
    /\ ret = NoCall
    /\ videos = <<>>
    /\ config = DefaultFilters
    /\ now = 10
    /\ similarity = <<>>
    /\ log = <<>>
    /\ pc = "start"
    /\ new_videos = <<>>
    /\ next_index = 1
    /\ download_results = <<>>
    /\ results = EmptyResults
    /\ events = <<>>
    /\ exit_status = [printed |-> <<>>, code |-> None]
    /\ client = NoClient
    /\ dry_run \in BOOLEAN
    /\ config_data = Some([channel_url |-> <<"h", "t", "t", "p", "s", ":", "/", "/", "w", "w", "w", ".",
                                            "y", "o", "u", "t", "u", "b", "e", ".", "c", "o", "m", "/",
                                            "@", "a", "-", "1">>,
                           upload_window_days |-> None, min_duration_minutes |-> None,
                           max_duration_minutes |-> None, exclude_keywords |-> << <<"x">> >>])
    /\ storage \in [generate_metadata : BOOLEAN, cleanup_partial_downloads : BOOLEAN]
    /\ LET \* two videos, the title of one beginning with the title of the other
           v1 == PlainVideo("v1")
           v5 == [PlainVideo("v5") EXCEPT !.title = <<"A">>]
       IN  \* the Channel Source may list a video twice
           /\ feed \in {Some(l) : l \in ListsUpTo({v1, v5}, MaxBatch)}
           \* an empty and a non-empty media file at the stem of v1, a temporary
           \* file in the directory, and one outside base_dir
           /\ \E p \in {output_path(v1)} :
                  files \in SUBSET {File(p[1], p[2] \o MediaExtensions[1], 0),
                                   File(p[1], p[2] \o MediaExtensions[2], 1),
                                   File(p[1], <<"A", ".", "t", "m", "p">>, 1),
                                   File(<< <<"o">> >>, <<"z", ".", "p", "a", "r", "t">>, 1)}

SpecBatch == InitBatch /\ [][NextMain]_vars

\* the types of the process
MainTyped ==
    /\ pc \in {"start", "ready", "filtering", "downloading", "executing", "returned", "exited"}
    /\ next_index \in 1..(Len(new_videos) + 1)

-----------------------------------------------------------------------------
(* Claims about loading the configuration.                                 *)

\* main() has constructed the downloader or given up
Constructed == pc # "start"

\* main() printed the fatal error and exited with code 1
FatalExit == exit_status = [printed |-> <<"Fatal error">>, code |-> Some(1)]

\* C17: a configuration file that is valid but for a recency window of 0 days is
\* accepted when it is loaded, and under it the recency filter keeps every video
C17_ZeroWindowAccepted ==
    (/\ Constructed
     /\ config_data # None
     /\ config_data[1].upload_window_days = Some(0)
     /\ ConfigValid([config_data[1] EXCEPT !.upload_window_days = None]))
    => /\ ~FatalExit
       /\ config.upload_window_days = 0
       /\ filter_by_upload_date(config, feed[1], now, now).out = feed[1]

\* the beginnings of a channel reference of a recognised form
RecognisedBeginnings ==
    {scheme \o <<":", "/", "/">> \o www \o <<"y", "o", "u", "t", "u", "b", "e", ".", "c", "o", "m", "/">> \o form :
        scheme \in {<<"h", "t", "t", "p">>, <<"h", "t", "t", "p", "s">>},
        www \in {<<>>, <<"w", "w", "w", ".">>},
        form \in {<<"@">>, <<"c", "h", "a", "n", "n", "e", "l", "/">>, <<"c", "/">>, <<"u", "s", "e", "r", "/">>}}

\* the reference does not begin with a recognised form followed by a name
Malformed(url) ==
    ~\E b \in RecognisedBeginnings :
        /\ Len(url) > Len(b)
        /\ SubSeq(url, 1, Len(b)) = b
        /\ url[Len(b) + 1] \in WordSet \cup {"-"}

\* a negative recency window
InvalidRecency(d) == d.upload_window_days # None /\ d.upload_window_days[1] < 0

\* a negative duration bound, or both bounds set with the maximum not greater
\* than the minimum
InvalidDurationBounds(d) ==
    \/ d.min_duration_minutes # None /\ d.min_duration_minutes[1] < 0
    \/ d.max_duration_minutes # None /\ d.max_duration_minutes[1] < 0
    \/ /\ d.min_duration_minutes # None
       /\ d.max_duration_minutes # None
       /\ d.max_duration_minutes[1] <= d.min_duration_minutes[1]

\* C18: when the configuration file holds an invalid recency window, invalid
\* duration bounds or a malformed channel reference, the process prints the
\* fatal error and exits with code 1, and it calls neither the Channel Source
\* nor the Download Executor
C18_InvalidConfigurationIsFatal ==
    (/\ Constructed
     /\ config_data # None
     /\ \/ InvalidRecency(config_data[1])
        \/ InvalidDurationBounds(config_data[1])
        \/ Malformed(config_data[1].channel_url))
    => /\ FatalExit
       /\ pc = "exited"
       /\ events = <<>>
       /\ files = {}

\* the process has exited on a file whose only fault is a maximum duration
\* equal to the minimum
C18_Witness ==
    /\ pc = "exited"
    /\ FatalExit
    /\ config_data # None
    /\ ~Malformed(config_data[1].channel_url)
    /\ config_data[1].upload_window_days = Some(1)
    /\ config_data[1].min_duration_minutes = Some(5)
    /\ config_data[1].max_duration_minutes = Some(5)

-----------------------------------------------------------------------------
(* Claims about a run of check_and_download.                               *)

\* the positions of events before position i that hold the call e on item k
Before(i, e, k) == {j \in 1..(i - 1) : events[j] = Event(e, k)}

\* the item at position k of the list handed to download_videos is an item of
\* the output of the Filter Chain on what the Channel Source returned
Selected(k) ==
    LET out == apply_all_filters(config, feed[1], now, now).out
    IN  k \in 1..Len(new_videos) /\ \E m \in 1..Len(out) : out[m] = new_videos[k]

\* every item of the output of the Filter Chain had its existence check begun
\* before position i
AllAttemptedBefore(i) == \A k \in 1..Len(new_videos) : Before(i, "exists", k) # {}

\* the order of the calls up to position i, but for what has to precede the
\* cleanup and the return
OrderedAt(i) ==
    LET ev == events[i]
    IN  /\ ev.e = "fetch" => i = 1
        /\ ev.e = "filter" => i = 2 /\ events[1].e = "fetch"
        /\ ev.e = "exists" => /\ Before(i, "filter", 0) # {}
                              /\ Selected(ev.k)
                              /\ Before(i, "cleanup", 0) = {}
        /\ ev.e = "download" => /\ Before(i, "filter", 0) # {}
                                /\ Selected(ev.k)
                                /\ events[i - 1] = Event("exists", ev.k)
                                /\ Before(i, "download", ev.k) = {}
        /\ ev.e = "cleanup" => \A j \in 1..(i - 1) : events[j].e # "return"
        /\ ev.e = "return" => i = Len(events)

\* C19 as stated: in every run the calls come in the order fetch, filter,
\* existence check, download, cleanup and return; the executor is called only
\* after the Filter Chain and only on items of its output, each item's existence
\* check comes right before its download, and the cleanup and the return come
\* only after every item of the output has been attempted
C19_StagesInOrder ==
    \A i \in 1..Len(events) :
        /\ OrderedAt(i)
        /\ events[i].e \in {"cleanup", "return"} => AllAttemptedBefore(i)

\* C19: the same, where only in a run that is not a dry run the cleanup and the
\* return wait for every item of the output to have been attempted; a dry run
\* returns after the Filter Chain with no item attempted
C19_StagesInOrderUnlessDryRun ==
    \A i \in 1..Len(events) :
        /\ OrderedAt(i)
        /\ events[i].e \in {"cleanup", "return"} => dry_run \/ AllAttemptedBefore(i)
        /\ dry_run => events[i].e \in {"fetch", "filter", "raised", "return"}

\* a run that dropped a video in the Filter Chain, downloaded its first item,
\* found its second one on disk, cleaned up and returned
C19_Witness ==
    /\ ~dry_run
    /\ events = <<Event("fetch", 0), Event("filter", 0), Event("exists", 1), Event("download", 1),
                  Event("exists", 2), Event("cleanup", 0), Event("return", 0)>>
    /\ Len(feed[1]) > Len(new_videos)
    /\ output_path(new_videos[2]) # output_path(new_videos[1])

\* how many calls raised out of their stage
StageFailures == Cardinality({i \in 1..Len(events) : events[i].e = "raised"})

\* the items whose check or download raised
FailedItems == {k \in 1..Len(new_videos) : \E i \in 1..Len(events) : events[i] = Event("failed", k)}

\* the summary holds one error per stage that raised and everything counted up
\* to there: the videos found, their entries, and after download_videos the
\* attempts, the successes, the failures and the status of each entry
SummaryRetained ==
    /\ Len(results.errors) = StageFailures
    /\ results.new_videos_found = Len(new_videos)
    /\ new_videos # <<>> =>
           /\ Len(results.videos_processed) = Len(new_videos)
           /\ \A k \in 1..Len(new_videos) :
                  results.videos_processed[k].video_id = new_videos[k].video_id
    /\ (\E i \in 1..Len(events) : events[i].e = "cleanup") =>
           /\ results.downloads_attempted = Len(new_videos)
           /\ results.downloads_failed = Cardinality(FailedItems)
           /\ results.downloads_successful = Len(new_videos) - Cardinality(FailedItems)
           /\ \A k \in 1..Len(new_videos) :
                  results.videos_processed[k].download_status =
                      IF k \in FailedItems THEN "failed" ELSE "success"

\* check_and_download was called and the process is past it
PastCheckAndDownload == events # <<>> /\ pc \in {"returned", "exited"}

\* main() printed that the process was interrupted
Interrupted == exit_status.printed = <<"Process interrupted by user">>

\* C20 as stated: every call of check_and_download ends by returning the
\* summary, with one error per stage that raised and the counts and entries
\* accumulated before it
C20_AlwaysReturnsSummary ==
    PastCheckAndDownload
    => /\ events[Len(events)] = Event("return", 0)
       /\ SummaryRetained

\* C20: every call of check_and_download that no KeyboardInterrupt cuts short
\* ends by returning the summary, with one error per stage that raised and the
\* counts and entries accumulated before it; an item whose check or download
\* raised is counted as failed and adds no error
C20_ReturnsSummaryUnlessInterrupted ==
    (PastCheckAndDownload /\ ~Interrupted)
    => /\ events[Len(events)] = Event("return", 0)
       /\ SummaryRetained

\* the cleanup raised after one item was downloaded and another had failed:
\* the summary is returned with the error and both counts
C20_Witness ==
    /\ pc = "returned"
    /\ events[Len(events) - 1] = Event("raised", 0)
    /\ events[Len(events) - 2] = Event("cleanup", 0)
    /\ Len(results.errors) = 1
    /\ results.downloads_successful = 1
    /\ results.downloads_failed = 1

-----------------------------------------------------------------------------
(* The dry run.                                                            *)

\* the entries of the summary are those of the selected videos, in their order
\* and with their fields, whatever their download_status
EntriesOfSelected ==
    /\ Len(results.videos_processed) = Len(new_videos)
    /\ \A k \in 1..Len(new_videos) :
           results.videos_processed[k] =
               video_info(new_videos[k], results.videos_processed[k].download_status)

\* C21: a dry run stops after filtering: it never checks a file, never invokes
\* the Download Executor and never cleans up, its summary has
\* downloads_attempted, downloads_successful and downloads_failed at 0, and
\* videos_processed has one entry per selected video, with the fields a real
\* run gives it and the status 'pending'
C21_DryRunStopsAfterListing ==
    /\ dry_run =>
           /\ \A i \in 1..Len(events) : events[i].e \notin {"exists", "download", "failed", "cleanup"}
           /\ results.downloads_attempted = 0
           /\ results.downloads_successful = 0
           /\ results.downloads_failed = 0
           /\ results.videos_processed =
                  [k \in 1..Len(new_videos) |-> video_info(new_videos[k], "pending")]
    /\ (results.videos_processed # <<>>) => EntriesOfSelected

\* a dry run has returned a summary of two selected videos while a file of
\* one of them is on disk
C21_Witness ==
    /\ dry_run
    /\ pc = "returned"
    /\ Len(new_videos) = 2
    /\ Len(feed[1]) = 3
    /\ results.new_videos_found = 2
    /\ Len(results.videos_processed) = 2
    /\ results.errors = <<>>
    /\ files # {}

-----------------------------------------------------------------------------
(* The batch of downloads.                                                 *)

IsExists(ev) == ev.e = "exists"

\* the items download_videos has called download_video on, in the order of the calls
Attempts == SelectSeq(events, IsExists)

\* download_video was called on the items in the order of the list, once each,
\* and on all of them when the loop is over
AttemptedInOrder ==
    /\ \A i \in 1..Len(Attempts) : Attempts[i].k = i
    /\ Exhausted => Len(Attempts) = Len(new_videos)

\* item k failed: its check or its download raised, or no file was found
ItemFailed(k) == \E i \in 1..Len(events) : events[i] = Event("failed", k)

\* C22: download_videos goes through the list in order, one video at a time;
\* a failure never cancels or skips a later video, every video is attempted
\* exactly once, and the outcome recorded for each item is its own
C22_EveryItemAttemptedOnceWithItsOutcome ==
    /\ AttemptedInOrder
    /\ \A k \in 1..(next_index - 1) :
           /\ new_videos[k].video_id \in DOMAIN download_results
           /\ download_results[new_videos[k].video_id] = ~ItemFailed(k)

\* the part of C22 that holds when a video is listed twice: the order and the
\* number of the attempts, and the outcome kept under a video id is that of
\* the last item of that id
C22_OutcomeOfLastItemOfEachId ==
    /\ AttemptedInOrder
    /\ \A k \in 1..(next_index - 1) :
           /\ new_videos[k].video_id \in DOMAIN download_results
           /\ (\A j \in (k + 1)..(next_index - 1) : new_videos[j].video_id # new_videos[k].video_id)
                  => download_results[new_videos[k].video_id] = ~ItemFailed(k)

-----------------------------------------------------------------------------
(* Already downloaded.                                                     *)

\* the files on disk named by the stem of v and a media extension, in its directory
MediaFilesAt(v) ==
    {f \in files : /\ f.dir = output_path(v)[1]
                   /\ \E k \in 1..Len(MediaExtensions) : f.name = output_path(v)[2] \o MediaExtensions[k]}

\* is_already_downloaded has just answered for item k, without raising
Checked(k) ==
    /\ pc \in {"downloading", "executing"}
    /\ events # <<>>
    /\ events[Len(events)] = Event("exists", k)

\* item k was skipped: download_video returned True without the Download Executor
Skipped(k) ==
    /\ pc = "downloading"
    /\ next_index = k + 1
    /\ ret = [op |-> "download_video", arg |-> k,
              val |-> [success |-> TRUE, file |-> None, nfo_raised |-> FALSE]]

\* C23 as stated: a video counts as already downloaded, and the Download
\* Executor is not invoked for it, exactly when a file with a media extension
\* is at its directory and stem
C23_AnyMediaFileCounts ==
    \A k \in 1..Len(new_videos) :
        Checked(k) => IF MediaFilesAt(new_videos[k]) # {} THEN Skipped(k) ELSE pc = "executing"

\* C23: a video counts as already downloaded, and the Download Executor is not
\* invoked for it, exactly when a file that is not empty, with a media
\* extension, is at its directory and stem
C23_NonEmptyMediaFileCounts ==
    \A k \in 1..Len(new_videos) :
        Checked(k) => IF \E f \in MediaFilesAt(new_videos[k]) : f.size > 0
                      THEN Skipped(k) ELSE pc = "executing"

\* a video is skipped for its non-empty .mkv file, next to an empty .mp4 file
\* of the same stem
C23_Witness ==
    /\ Checked(1)
    /\ Skipped(1)
    /\ \E f, g \in MediaFilesAt(new_videos[1]) : f.size = 0 /\ g.size > 0

-----------------------------------------------------------------------------
(* Nothing fetched.                                                        *)

\* C25: when the Channel Source answers with no video, check_and_download
\* returns a summary with new_videos_found 0, no entry in videos_processed,
\* downloads_attempted 0 and no error, and neither the Filter Chain nor the
\* Download Executor is invoked
C25_NothingFetchedIsNotAnError ==
    (Constructed /\ feed = Some(<<>>))
    => /\ results.new_videos_found = 0
       /\ results.videos_processed = <<>>
       /\ results.downloads_attempted = 0
       /\ results.downloads_successful = 0
       /\ results.downloads_failed = 0
       /\ results.errors = <<>>
       /\ \A i \in 1..Len(events) : events[i].e \in {"fetch", "return"}
       /\ pc \in {"returned", "exited"} => events = <<Event("fetch", 0), Event("return", 0)>>
       /\ exit_status.code \in {None, Some(0)}

\* the process has exited with code 0 after the Channel Source answered with
\* no video, files of earlier runs being on disk
C25_Witness ==
    /\ feed = Some(<<>>)
    /\ pc = "exited"
    /\ exit_status.code = Some(0)
    /\ results.new_videos_found = 0
    /\ results.errors = <<>>
    /\ files # {}

-----------------------------------------------------------------------------
(* The NFO file.                                                           *)

\* download_video has just returned True for item k
ReportedSuccess(k) ==
    /\ pc = "downloading"
    /\ next_index = k + 1
    /\ ret.op = "download_video"
    /\ ret.arg = k
    /\ ret.val.success

\* a file of the directory of f is named as f with .nfo for its media extension
HasSidecar(f) ==
    \E g \in files, j \in 1..Len(MediaExtensions) :
        /\ g.dir = f.dir
        /\ endswith(f.name, MediaExtensions[j])
        /\ g.name = SubSeq(f.name, 1, Len(f.name) - Len(MediaExtensions[j])) \o <<".", "n", "f", "o">>

-----------------------------------------------------------------------------
(* The cleanup.                                                            *)

\* f is below base_dir and its name ends with .part, .tmp or .ytdl
IsPartial(f) ==
    /\ Len(f.dir) >= Len(base_dir)
    /\ SubSeq(f.dir, 1, Len(base_dir)) = base_dir
    /\ \/ endswith(f.name, <<".", "p", "a", "r", "t">>)
       \/ endswith(f.name, <<".", "t", "m", "p">>)
       \/ endswith(f.name, <<".", "y", "t", "d", "l">>)

\* cleanup_partial_downloads has just returned to check_and_download
CleanedUp ==
    /\ pc = "returned"
    /\ ret.op = "cleanup_partial_downloads"
    /\ ~ret.val.raised

\* no error in the summary, and its counts are those of its entries
SummaryUntouched ==
    /\ results.errors = <<>>
    /\ results.new_videos_found = Len(new_videos)
    /\ results.downloads_attempted = Len(new_videos)
    /\ results.downloads_successful =
           Cardinality({k \in 1..Len(new_videos) : download_results[new_videos[k].video_id]})
    /\ results.downloads_failed =
           Cardinality({k \in 1..Len(new_videos) : ~download_results[new_videos[k].video_id]})

\* C27 as stated: the cleanup at the end of a batch deletes the files below
\* base_dir ending with .part, .tmp or .ytdl, except those whose deletion
\* fails, and no other file; a failed deletion adds no error and changes no count
C27_CleanupDeletesPartialFiles ==
    CleanedUp
    => /\ files = {f \in ret.arg : ~IsPartial(f) \/ f \in ret.val.undeletable}
       /\ SummaryUntouched

\* C27: with storage.cleanup_partial_downloads on, the cleanup at the end of a
\* batch deletes the files below base_dir ending with .part, .tmp or .ytdl,
\* except those whose deletion fails, and no other file; with the option off
\* it deletes nothing; a failed deletion adds no error and changes no count
C27_CleanupDeletesPartialFilesWhenEnabled ==
    CleanedUp
    => /\ files = IF storage.cleanup_partial_downloads
                  THEN {f \in ret.arg : ~IsPartial(f) \/ f \in ret.val.undeletable}
                  ELSE ret.arg
       /\ SummaryUntouched

\* of two partial files below base_dir one was deleted and the other could
\* not be; a media file and the .part file outside base_dir are still there
C27_Witness ==
    /\ CleanedUp
    /\ storage.cleanup_partial_downloads
    /\ \E f, g \in ret.arg : /\ IsPartial(f) /\ f \notin files
                              /\ IsPartial(g) /\ g \in files
    /\ \E f \in files : ~IsPartial(f) /\ endswith(f.name, <<".", "p", "a", "r", "t">>)
    /\ \E f \in files : f.name = output_path(new_videos[1])[2] \o MediaExtensions[1]

-----------------------------------------------------------------------------
(* The counts of the summary.                                              *)

\* check_and_download has returned its summary
Returned ==
    /\ pc \in {"returned", "exited"}
    /\ events # <<>>
    /\ events[Len(events)] = Event("return", 0)

\* C29: in every summary downloads_successful + downloads_failed <=
\* downloads_attempted <= new_videos_found and videos_processed has at most
\* new_videos_found entries; when a run that is not a dry run returns without
\* an error the three are equal to the number of entries and no entry is
\* 'pending', also when two selected videos have the same video_id
C29_CountsOfTheSummary ==
    /\ results.downloads_successful + results.downloads_failed <= results.downloads_attempted
    /\ results.downloads_attempted <= results.new_videos_found
    /\ Len(results.videos_processed) <= results.new_videos_found
    /\ (Returned /\ ~dry_run /\ results.errors = <<>>)
       => /\ results.downloads_successful + results.downloads_failed = results.downloads_attempted
          /\ results.downloads_attempted = results.new_videos_found
          /\ results.new_videos_found = Len(results.videos_processed)
          /\ \A k \in 1..Len(results.videos_processed) :
                 results.videos_processed[k].download_status \in {"success", "failed"}

\* a run has returned without an error the summary of two selected videos of
\* the same video_id, the first of which had failed and the second had not
C29_Witness ==
    /\ Returned
    /\ ~dry_run
    /\ results.errors = <<>>
    /\ Len(new_videos) = 2
    /\ new_videos[1].video_id = new_videos[2].video_id
    /\ ItemFailed(1)
    /\ ~ItemFailed(2)
    /\ results.downloads_successful = 2

-----------------------------------------------------------------------------
(* Success and the file on disk.                                           *)

\* C30: whenever download_video has reported success for a video, a file that
\* is not empty, with a media extension, is at the directory and stem of that
\* video, so that is_already_downloaded answers True for it from then on and
\* a second run does not invoke the Download Executor for it
C30_SuccessLeavesTheFile ==
    \A k \in 1..Len(new_videos) :
        ReportedSuccess(k) => \E f \in MediaFilesAt(new_videos[k]) : f.size > 0

-----------------------------------------------------------------------------
(* YouTubeClient.  A client is its api_client (present or None), its       *)
(* quota counter, the date of the last reset, config.quota_limit and the   *)
(* date of the clock.  An operation runs on a record s of the client (c)   *)
(* and of the quota checks, metered calls and feed fetches it has made     *)
(* (trace), and is the set of the ways it can end, one for each answer of  *)
(* the API and of the feed.                                                *)

\* the cost of search().list
SearchCost == 100

\* the cost of channels().list, and of videos().list per video
LookupCost == 1

\* the last date of the clock
MaxDay == 1

\* the number of operations called on a client
MaxCalls == 2

\* the videos a backend lists
Items(from, n) == [k \in 1..n |-> [from |-> from, k |-> k]]

\* urlparse(url).path of a URL that is either https://host/... or has no scheme
path(url) ==
    LET marks == {i \in 1..Len(url) : url[i] \in {"?", "#"}}
        u == IF marks = {} THEN url
             ELSE SubSeq(url, 1, (CHOOSE i \in marks : \A j \in marks : i <= j) - 1)
        scheme == {i \in 1..(Len(u) - 2) : SubSeq(u, i, i + 2) = <<":", "/", "/">>}
        rest == SubSeq(u, (CHOOSE i \in scheme : \A j \in scheme : i <= j) + 3, Len(u))
        slashes == {i \in 1..Len(rest) : rest[i] = "/"}
    IN  IF scheme = {} THEN u
        ELSE IF slashes = {} THEN <<>>
        ELSE SubSeq(rest, CHOOSE i \in slashes : \A j \in slashes : i <= j, Len(rest))

\* YouTubeClient._check_quota
check_quota(s, cost) ==
    LET c == IF s.c.today > s.c.last_quota_reset
             THEN [s.c EXCEPT !.quota_used = 0, !.last_quota_reset = s.c.today]
             ELSE s.c
        ok == c.quota_used + cost <= c.quota_limit
    IN  [s |-> [c |-> c,
                trace |-> Append(s.trace, [kind |-> "check", what |-> "", cost |-> cost, ok |-> ok,
                                           raised |-> "", n |-> 0, used |-> c.quota_used])],
         ok |-> ok]

\* a metered call that adds its cost to the counter also when it raises
execute_charging_failures(s, what, cost) ==
    {[s |-> [c |-> [s.c EXCEPT !.quota_used = @ + cost],
             trace |-> Append(s.trace, [kind |-> "call", what |-> what, cost |-> cost, ok |-> e = "",
                                        raised |-> e, n |-> IF e = "" THEN n ELSE 0,
                                        used |-> s.c.quota_used + cost])],
      raised |-> e, n |-> IF e = "" THEN n ELSE 0] :
        e \in {"", "HttpError", "Exception"}, n \in 0..MaxBatch}

\* a metered call, request.execute(), and the "self.quota_used += cost" that
\* follows it: it answers with n items, or raises HttpError or something else
execute(s, what, cost) ==
    {[s |-> [c |-> [s.c EXCEPT !.quota_used = @ + cost],
             trace |-> Append(s.trace, [kind |-> "call", what |-> what, cost |-> cost, ok |-> TRUE,
                                        raised |-> "", n |-> n, used |-> s.c.quota_used + cost])],
      raised |-> "", n |-> n] : n \in 0..MaxBatch}
    \cup {[s |-> [c |-> s.c,
                  trace |-> Append(s.trace, [kind |-> "call", what |-> what, cost |-> cost, ok |-> FALSE,
                                             raised |-> e, n |-> 0, used |-> s.c.quota_used])],
           raised |-> e, n |-> 0] : e \in {"HttpError", "Exception"}}

\* _get_channel_id_by_username (cost 1) and _get_channel_id_by_search (cost
\* 100): the id of the first item; HttpError is caught
get_channel_id(s, what, cost) ==
    IF ~s.c.api_client THEN {[s |-> s, raised |-> "", id |-> None]}
    ELSE LET q == check_quota(s, cost)
         IN  IF ~q.ok THEN {[s |-> q.s, raised |-> "", id |-> None]}
             ELSE {[s |-> r.s,
                    raised |-> IF r.raised = "HttpError" THEN "" ELSE r.raised,
                    id |-> IF r.raised = "" /\ r.n > 0 THEN Some(<<"U", "C", "i">>) ELSE None] :
                       r \in execute(q.s, what, cost)}

\* the text after the last sep of t: t.split(sep)[-1]
after_last(t, sep) ==
    LET at == {i \in 1..(Len(t) - Len(sep) + 1) : SubSeq(t, i, i + Len(sep) - 1) = sep}
    IN  SubSeq(t, (CHOOSE i \in at : \A j \in at : j <= i) + Len(sep), Len(t))

\* YouTubeClient._extract_channel_id_from_url
extract_channel_id_from_url(s, url) ==
    LET p == path(url)
    IN  IF startswith(url, <<"@">>) \/ startswith(p, <<"/", "@">>)
        THEN get_channel_id(s, "search channel", SearchCost)
        ELSE IF occurs_in(<<"/", "c", "h", "a", "n", "n", "e", "l", "/">>, p)
        THEN {[s |-> s, raised |-> "",
               id |-> Some(after_last(p, <<"/", "c", "h", "a", "n", "n", "e", "l", "/">>))]}
        ELSE IF occurs_in(<<"/", "c", "/">>, p) THEN get_channel_id(s, "search channel", SearchCost)
        ELSE IF occurs_in(<<"/", "u", "s", "e", "r", "/">>, p) THEN get_channel_id(s, "channels", LookupCost)
        ELSE {[s |-> s, raised |-> "", id |-> None]}

\* YouTubeClient.get_channel_videos_rss: the feed is fetched when the channel
\* id starts with UC or the path with /@; what the fetch raises is caught
get_channel_videos_rss(s, url) ==
    LET called == [s EXCEPT !.trace = Append(@, [kind |-> "rss", what |-> "", cost |-> 0, ok |-> TRUE,
                                                 raised |-> "", n |-> 0, used |-> s.c.quota_used])]
    IN  UNION {IF r.raised # "" THEN {[s |-> r.s, raised |-> r.raised, videos |-> <<>>]}
               ELSE IF \/ r.id # None /\ startswith(r.id[1], <<"U", "C">>)
                       \/ startswith(path(url), <<"/", "@">>)
               THEN {[s |-> [r.s EXCEPT !.trace = Append(@, [kind |-> "feed", what |-> "", cost |-> 0,
                                                             ok |-> TRUE, raised |-> "", n |-> n,
                                                             used |-> r.s.c.quota_used])],
                      raised |-> "", videos |-> Items("rss", n)] : n \in 0..MaxBatch}
               ELSE {[s |-> r.s, raised |-> "", videos |-> <<>>]} :
                  r \in extract_channel_id_from_url(called, url)}

\* YouTubeClient.get_channel_videos_api
get_channel_videos_api(s, url) ==
    IF ~s.c.api_client THEN get_channel_videos_rss(s, url)
    ELSE UNION {
        IF r.raised # "" THEN {[s |-> r.s, raised |-> r.raised, videos |-> <<>>]}
        ELSE IF r.id = None \/ r.id = Some(<<>>) THEN {[s |-> r.s, raised |-> "", videos |-> <<>>]}
        ELSE LET q == check_quota(r.s, SearchCost)
             IN  IF ~q.ok THEN get_channel_videos_rss(q.s, url)
                 ELSE UNION {
                     IF found.raised = "HttpError" THEN get_channel_videos_rss(found.s, url)
                     ELSE IF found.raised # ""
                     THEN {[s |-> found.s, raised |-> found.raised, videos |-> <<>>]}
                     ELSE IF found.n = 0 THEN {[s |-> found.s, raised |-> "", videos |-> <<>>]}
                     ELSE LET d == check_quota(found.s, found.n * LookupCost)
                          IN  IF ~d.ok
                              THEN {[s |-> d.s, raised |-> "", videos |-> Items("search", found.n)]}
                              ELSE UNION {
                                  IF det.raised = "HttpError" THEN get_channel_videos_rss(det.s, url)
                                  ELSE IF det.raised # ""
                                  THEN {[s |-> det.s, raised |-> det.raised, videos |-> <<>>]}
                                  ELSE {[s |-> det.s, raised |-> "", videos |-> Items("api", det.n)]} :
                                     det \in execute(d.s, "videos", found.n * LookupCost)} :
                        found \in execute(q.s, "search videos", SearchCost)} :
           r \in extract_channel_id_from_url(s, url)}

\* get_channel_videos returning what get_channel_videos_api returned
get_channel_videos_without_fallback(s, url) ==
    IF s.c.api_client THEN get_channel_videos_api(s, url) ELSE get_channel_videos_rss(s, url)

\* YouTubeClient.get_channel_videos with prefer_api at its default
get_channel_videos(s, url) ==
    IF s.c.api_client
    THEN UNION {IF r.raised # "" \/ r.videos # <<>> THEN {r} ELSE get_channel_videos_rss(r.s, url) :
                   r \in get_channel_videos_api(s, url)}
    ELSE get_channel_videos_rss(s, url)

\* a call of get_channel_videos on the client
GetChannelVideos ==
    /\ Len(events) < MaxCalls
    /\ events' = Append(events, Event("get_channel_videos", 0))
    /\ \E url \in {<<"@", "a">>,
                   <<"h", "t", "t", "p", "s", ":", "/", "/", "y", "/", "@", "a">>,
                   <<"y", "/", "@", "a">>,
                   <<"h", "t", "t", "p", "s", ":", "/", "/", "y", "/", "c", "h", "a", "n", "n", "e", "l", "/", "U", "C", "x">>,
                   <<"h", "t", "t", "p", "s", ":", "/", "/", "y", "/", "c", "h", "a", "n", "n", "e", "l", "/", "x">>,
                   <<"h", "t", "t", "p", "s", ":", "/", "/", "y", "/", "c", "/", "a">>,
                   <<"h", "t", "t", "p", "s", ":", "/", "/", "y", "/", "u", "s", "e", "r", "/", "a">>} :
           \E r \in get_channel_videos([c |-> client, trace |-> <<>>], url) :
               /\ client' = r.s.c
               /\ ret' = [op |-> "get_channel_videos", arg |-> [url |-> url, c |-> client],
                          val |-> [raised |-> r.raised, videos |-> r.videos, trace |-> r.s.trace]]
    /\ UNCHANGED <<naming_vars, filter_vars, pc, dry_run, storage, config_data, feed, new_videos,
                   next_index, download_results, results, files, exit_status>>

\* ChannelMonitor.force_check_video as far as the client goes: one metered
\* call of cost 1; every exception is caught
ForceCheckVideo ==
    /\ Len(events) < MaxCalls
    /\ events' = Append(events, Event("force_check_video", 0))
    /\ LET q == check_quota([c |-> client, trace |-> <<>>], LookupCost)
       IN  IF ~client.api_client
           THEN /\ ret' = [op |-> "force_check_video", arg |-> [url |-> <<>>, c |-> client],
                           val |-> [raised |-> "", videos |-> <<>>, trace |-> <<>>]]
                /\ UNCHANGED client
           ELSE IF ~q.ok
           THEN /\ ret' = [op |-> "force_check_video", arg |-> [url |-> <<>>, c |-> client],
                           val |-> [raised |-> "", videos |-> <<>>, trace |-> q.s.trace]]
                /\ client' = q.s.c
           ELSE \E r \in execute(q.s, "videos", LookupCost) :
                    /\ r.n <= 1
                    /\ client' = r.s.c
                    /\ ret' = [op |-> "force_check_video", arg |-> [url |-> <<>>, c |-> client],
                               val |-> [raised |-> "", videos |-> Items("api", r.n), trace |-> r.s.trace]]
    /\ UNCHANGED <<naming_vars, filter_vars, pc, dry_run, storage, config_data, feed, new_videos,
                   next_index, download_results, results, files, exit_status>>

\* the date changes
NextDay ==
    /\ client.today < MaxDay
    /\ client' = [client EXCEPT !.today = @ + 1]
    /\ UNCHANGED <<naming_vars, filter_vars, ret, pc, dry_run, storage, config_data, feed, new_videos,
                   next_index, download_results, results, events, files, exit_status>>

\* YouTubeClient(config): the counter at 0, the reset date today, the
\* api_client None when build() raised
InitClient ==
    /\ video = NoVideo
    /\ organize_by_season = TRUE
    /\ filename = <<>>
    /\ ret = NoCall
    /\ FilterUnused
    /\ pc = "none"
    /\ dry_run = FALSE
    /\ config_data = None
    /\ feed = None
    /\ new_videos = <<>>
    /\ next_index = 1
    /\ download_results = <<>>
    /\ results = EmptyResults
    /\ events = <<>>
    /\ files = {}
    /\ exit_status = [printed |-> <<>>, code |-> None]
    /\ storage = DefaultStorage
    /\ client \in [api_client : BOOLEAN, quota_used : {0}, last_quota_reset : {0},
                   quota_limit : {LookupCost, SearchCost, 2 * SearchCost + LookupCost},
                   today : {0}]

NextClient ==
    \/ GetChannelVideos
    \/ ForceCheckVideo
    \/ NextDay

SpecClient == InitClient /\ [][NextClient]_vars

-----------------------------------------------------------------------------
(* The quota.                                                              *)

\* an operation of the client has just returned or raised
ClientCalled == ret.op \in {"get_channel_videos", "force_check_video"}

\* the counter before entry i of the trace of the operation: that of the
\* entry before it, or that of the client when the operation began
UsedBefore(i) == IF i = 1 THEN ret.arg.c.quota_used ELSE ret.val.trace[i - 1].used

\* entry i is a quota check: it is the first check on a later date than the
\* last reset and finds the counter reset to 0, or it leaves the counter as
\* it was; it succeeds exactly when the counter and the cost fit in the limit
CheckAt(i) ==
    LET t == ret.val.trace
        first == \A j \in 1..(i - 1) : t[j].kind # "check"
    IN  /\ t[i].used = IF first /\ ret.arg.c.today > ret.arg.c.last_quota_reset THEN 0 ELSE UsedBefore(i)
        /\ t[i].ok <=> (t[i].used + t[i].cost <= ret.arg.c.quota_limit)

\* entry i is a metered call: it comes right after a quota check of its cost
\* that succeeded, and its cost is that of a search, of a lookup or of the
\* details of up to MaxBatch videos
CallAt(i) ==
    LET t == ret.val.trace
    IN  /\ i > 1
        /\ t[i - 1].kind = "check"
        /\ t[i - 1].ok
        /\ t[i - 1].cost = t[i].cost
        /\ t[i].cost \in {SearchCost} \cup {n * LookupCost : n \in 1..MaxBatch}

\* C28 as stated: quota_used never exceeds quota_limit; every metered call
\* comes after a quota check of its cost that succeeded, and the counter
\* grows by exactly that cost; the first quota check on a later date resets
\* the counter to 0
C28_EveryCallIsCharged ==
    /\ client.quota_used <= client.quota_limit
    /\ ClientCalled
       => \A i \in 1..Len(ret.val.trace) :
              LET e == ret.val.trace[i]
              IN  /\ e.kind = "check" => CheckAt(i)
                  /\ e.kind = "call" => CallAt(i) /\ e.used = UsedBefore(i) + e.cost
                  /\ e.kind \in {"rss", "feed"} => e.used = UsedBefore(i)

\* C28: quota_used never exceeds quota_limit; every metered call comes after a
\* quota check of its cost that succeeded; the counter grows by exactly that
\* cost when the call returns and is left as it was when the call raises; the
\* first quota check on a later date resets the counter to 0
C28_EveryAnsweredCallIsCharged ==
    /\ client.quota_used <= client.quota_limit
    /\ ClientCalled
       => /\ \A i \in 1..Len(ret.val.trace) :
                 LET e == ret.val.trace[i]
                 IN  /\ e.kind = "check" => CheckAt(i)
                     /\ e.kind = "call"
                        => CallAt(i) /\ e.used = UsedBefore(i) + (IF e.ok THEN e.cost ELSE 0)
                     /\ e.kind \in {"rss", "feed"} => e.used = UsedBefore(i)
          /\ client.quota_used = IF ret.val.trace = <<>> THEN ret.arg.c.quota_used
                                 ELSE ret.val.trace[Len(ret.val.trace)].used

\* on a later date, with the counter above 0, get_channel_videos made a
\* search that was charged and a call for the details that raised
C28_Witness ==
    /\ ret.op = "get_channel_videos"
    /\ ret.arg.c.quota_used > 0
    /\ ret.arg.c.today > ret.arg.c.last_quota_reset
    /\ \E i, j \in 1..Len(ret.val.trace) :
           /\ i < j
           /\ ret.val.trace[i].kind = "call"
           /\ ret.val.trace[i].ok
           /\ ret.val.trace[i].cost = SearchCost
           /\ ret.val.trace[i].used = SearchCost
           /\ ret.val.trace[j].kind = "call"
           /\ ~ret.val.trace[j].ok
    /\ client.quota_used = SearchCost

-----------------------------------------------------------------------------
(* The two backends.                                                       *)

\* get_channel_videos has returned or raised, and none of its metered calls
\* raised anything but HttpError
Listed ==
    /\ ret.op = "get_channel_videos"
    /\ \A i \in 1..Len(ret.val.trace) : ret.val.trace[i].raised # "Exception"

\* the API answered the search of the videos with videos, and either their
\* details were not asked for, for want of quota, or were given for some
ApiYielded ==
    LET t == ret.val.trace
    IN  \E i \in 1..Len(t) :
            /\ t[i].what = "search videos"
            /\ t[i].n > 0
            /\ \/ i + 1 = Len(t) /\ t[i + 1].kind = "check" /\ ~t[i + 1].ok
               \/ i + 2 = Len(t) /\ t[i + 2].what = "videos" /\ t[i + 2].n > 0

\* what the last call of get_channel_videos_rss returned: the entries of the
\* feed it fetched, nothing when it fetched none
FeedItems ==
    LET t == ret.val.trace
        calls == {i \in 1..Len(t) : t[i].kind = "rss"}
        last == CHOOSE i \in calls : \A j \in calls : j <= i
    IN  IF t[Len(t)].kind = "feed" /\ \A j \in (last + 1)..(Len(t) - 1) : t[j].kind # "feed"
        THEN Items("rss", t[Len(t)].n)
        ELSE <<>>

\* C24: when the API backend cannot serve the listing (no client, a quota
\* check that fails, an HttpError, no channel id or no video), get_channel_videos
\* does not raise: it calls get_channel_videos_rss and returns what that
\* returned; when the API backend yields videos, they are returned and
\* get_channel_videos_rss is not called
C24_FeedWhenApiCannotServe ==
    Listed
    => /\ ret.val.raised = ""
       /\ IF ApiYielded
          THEN /\ ret.val.videos # <<>>
               /\ \A k \in 1..Len(ret.val.videos) : ret.val.videos[k].from \in {"api", "search"}
               /\ \A i \in 1..Len(ret.val.trace) : ret.val.trace[i].kind \notin {"rss", "feed"}
          ELSE /\ \E i \in 1..Len(ret.val.trace) : ret.val.trace[i].kind = "rss"
               /\ ret.val.videos = FeedItems

\* the quota check of the search of the videos failed and the entries of the
\* feed were returned
C24_Witness ==
    /\ Listed
    /\ ret.arg.c.api_client
    /\ ret.val.trace[1] = [kind |-> "check", what |-> "", cost |-> SearchCost, ok |-> FALSE,
                           raised |-> "", n |-> 0, used |-> SearchCost]
    /\ ret.val.trace[Len(ret.val.trace)].kind = "feed"
    /\ Len(ret.val.videos) = 2
    /\ ret.val.videos[1].from = "rss"

====
